---- MODULE Spec2Model ----
(***************************************************************************)
(* State-machine model of the batch time-arithmetic engine of chrono-mcp   *)
(* (src/src/tools/time-calculator.ts, handleTimeCalculator and helpers).   *)
(*                                                                         *)
(* One request is followed from the call of handleTimeCalculator to its    *)
(* return (or throw).  `pc` is the position inside the handler; the other  *)
(* variables are the handler's locals.                                     *)
(*                                                                         *)
(* Conventions                                                             *)
(*  - an optional value (undefined | v) is the sequence <<>> | <<v>>;      *)
(*  - a "string | string[] | undefined" field is a tagged record           *)
(*    [k |-> "undef" | "str" | "arr", s |-> string, a |-> sequence];       *)
(*  - instants are whole seconds counted from 2024-01-01T00:00:00Z.        *)
(***************************************************************************)
EXTENDS Integers, Sequences, FiniteSets, TLC

\* Longest array literal enumerated for base_time / compare_time.
MaxLen == 3

\* src/src/tools/time-calculator.ts:1085
MAX_OPERATIONS == 10000

-----------------------------------------------------------------------------
(* Timestamp strings and the luxon calls made on them                      *)

T10 == "2024-01-01T10:00:00Z"
T12 == "2024-01-01T12:00:00Z"
Bad == "invalid-date-format"
EmptyStr == ""
LitEmpty == "[]"
LitPair == "[\"2024-01-01T10:00:00Z\",\"invalid-date-format\"]"
LitNumbers == "[1,2]"
LitBroken == "[oops"
\* T10 written with an offset, one second after T10, and later days.
T10NY == "2024-01-01T05:00:00-05:00"
T10s1 == "2024-01-01T10:00:01Z"
TJan08 == "2024-01-08T10:00:00Z"
TJan15 == "2024-01-15T10:00:00Z"
TJan22 == "2024-01-22T10:00:00Z"
TJan30 == "2024-01-30T10:00:00Z"
TJan31 == "2024-01-31T10:00:00Z"
TFeb15 == "2024-02-15T10:00:00Z"
TFeb29 == "2024-02-29T09:30:15Z"
TMar01 == "2024-03-01T10:00:00Z"
\* Without a zone designator: a local time, and a day written with one hyphen
\* (year, then month and day together), which ends like an offset.
TLocal10 == "2024-01-01T10:00:00"
TDay0115 == "2024-0115"
\* The timestamps of the documented sort example.
TJan01h08 == "2024-01-01T08:00:00Z"
TFeb14 == "2024-02-14T14:45:00Z"
TMar15 == "2024-03-15T10:30:00Z"

\* Every instant of the model is a whole second and is counted in seconds
\* from 2024-01-01T00:00:00Z; a quantity the program holds in milliseconds
\* (a multiple of 1000 for such instants) is held here divided by 1000:
\* a month is 2.6e9 ms, more than a 32-bit integer of the checker holds.
\* The only quantities that are not multiples of 1000 are the rounded
\* quotients of the statistics, see roundedMs.
Second == 1
Minute == 60 * Second
Hour == 60 * Minute
Day == 24 * Hour

\* Math.min, Math.max
Min(a, b) == IF a < b THEN a ELSE b
Max(a, b) == IF a > b THEN a ELSE b

\* The zone luxon uses when none is given, and the clock reading of DateTime.now().
SystemZone == "UTC"
NowTS == 11 * Hour
NowISO == "2024-01-01T11:00:00.000Z"

\* IANA zones known to the runtime and their offset from UTC before the
\* zone transition of 10 March 2024 (every instant of a request that names
\* America/New_York is earlier).
KnownZones == {"UTC", "America/New_York"}
ZoneOffset(z) == IF z = "America/New_York" THEN -5 * Hour ELSE 0

\* The proleptic Gregorian calendar luxon computes with.
IsLeapYear(y) == (y % 4 = 0) /\ ((y % 100 # 0) \/ (y % 400 = 0))

DaysInYear(y) == IF IsLeapYear(y) THEN 366 ELSE 365

\* daysInMonth(year, month) of luxon: a month outside 1..12 rolls the year.
daysInMonth(year, month) ==
    LET modMonth == ((month - 1) % 12) + 1
        modYear == year + ((month - modMonth) \div 12)
    IN  IF modMonth = 2 THEN (IF IsLeapYear(modYear) THEN 29 ELSE 28)
        ELSE IF modMonth \in {4, 6, 9, 11} THEN 30 ELSE 31

\* Leap years before year y, and the days from 2024-01-01 to the first day
\* of year y.
LeapYearsBefore(y) == ((y - 1) \div 4) - ((y - 1) \div 100) + ((y - 1) \div 400)

DaysBeforeYear(y) == 365 * (y - 2024) + LeapYearsBefore(y) - LeapYearsBefore(2024)

\* Days from the first day of year y to the first day of its month m (1..12):
\* nonLeapLadder and leapLadder of luxon.
nonLeapLadder == <<0, 31, 59, 90, 120, 151, 181, 212, 243, 273, 304, 334>>

DaysBeforeMonth(y, m) ==
    nonLeapLadder[m] + (IF m > 2 /\ IsLeapYear(y) THEN 1 ELSE 0)

\* objToLocalTS: Date.UTC(year, month - 1, day, ...) of calendar fields, the
\* month and the day of which may lie outside their range.
objToLocalTS(c) ==
    LET modMonth == ((c.month - 1) % 12) + 1
        modYear == c.year + ((c.month - modMonth) \div 12)
    IN  (DaysBeforeYear(modYear) + DaysBeforeMonth(modYear, modMonth) + (c.day - 1))
            * Day + c.time

\* tsToObj: the calendar fields of a local timestamp.  The year and the
\* month are found from the day number, the day of the month from what is left
\* (the year within 366 years of 2024, so that one step corrects the estimate).

yearAround(year, dayNumber) ==
    IF dayNumber >= DaysBeforeYear(year + 1) THEN year + 1 ELSE year

yearOfDay(dayNumber) == yearAround(2024 + (dayNumber \div 366), dayNumber)

monthOfOrdinal(year, ordinal) ==
    CHOOSE m \in 1..12 :
        /\ DaysBeforeMonth(year, m) <= ordinal
        /\ ordinal < DaysBeforeMonth(year, m) + daysInMonth(year, m)

dateOfOrdinal(year, month, ordinal, time) ==
    [year |-> year, month |-> month,
     day |-> ordinal - DaysBeforeMonth(year, month) + 1, time |-> time]

dateInYear(year, ordinal, time) ==
    dateOfOrdinal(year, monthOfOrdinal(year, ordinal), ordinal, time)

dateOfDay(year, dayNumber, time) ==
    dateInYear(year, dayNumber - DaysBeforeYear(year), time)

tsToObj(localTS) ==
    dateOfDay(yearOfDay(localTS \div Day), localTS \div Day, localTS % Day)

\* What DateTime.fromISO reads in a string: ok = it is an ISO 8601 timestamp,
\* c = its calendar/clock fields, hasOffset/offset = its zone designator;
\* and what the handler's test /[Z]$|[+-]\d{2}:?\d{2}$/ says of the string
\* (endsLikeZone).
IsoFields(y, m, d, time, offset) ==
    [ok |-> TRUE, c |-> [year |-> y, month |-> m, day |-> d, time |-> time],
     hasOffset |-> TRUE, offset |-> offset, endsLikeZone |-> TRUE]

\* An ISO 8601 string without a zone designator.
IsoLocalFields(y, m, d, time, endsLikeZone) ==
    [ok |-> TRUE, c |-> [year |-> y, month |-> m, day |-> d, time |-> time],
     hasOffset |-> FALSE, offset |-> 0, endsLikeZone |-> endsLikeZone]

NotIso ==
    [ok |-> FALSE, c |-> [year |-> 0, month |-> 0, day |-> 0, time |-> 0],
     hasOffset |-> FALSE, offset |-> 0, endsLikeZone |-> FALSE]

IsoTable ==
    (T10 :> IsoFields(2024, 1, 1, 10 * Hour, 0))
    @@ (T12 :> IsoFields(2024, 1, 1, 12 * Hour, 0))
    @@ (NowISO :> IsoFields(2024, 1, 1, NowTS, 0))
    @@ (T10NY :> IsoFields(2024, 1, 1, 5 * Hour, -5 * Hour))
    @@ (T10s1 :> IsoFields(2024, 1, 1, 10 * Hour + Second, 0))
    @@ (TJan08 :> IsoFields(2024, 1, 8, 10 * Hour, 0))
    @@ (TJan15 :> IsoFields(2024, 1, 15, 10 * Hour, 0))
    @@ (TJan22 :> IsoFields(2024, 1, 22, 10 * Hour, 0))
    @@ (TJan30 :> IsoFields(2024, 1, 30, 10 * Hour, 0))
    @@ (TJan31 :> IsoFields(2024, 1, 31, 10 * Hour, 0))
    @@ (TFeb15 :> IsoFields(2024, 2, 15, 10 * Hour, 0))
    @@ (TFeb29 :> IsoFields(2024, 2, 29, 9 * Hour + 30 * Minute + 15 * Second, 0))
    @@ (TMar01 :> IsoFields(2024, 3, 1, 10 * Hour, 0))
    @@ (TLocal10 :> IsoLocalFields(2024, 1, 1, 10 * Hour, FALSE))
    @@ (TDay0115 :> IsoLocalFields(2024, 1, 15, 0, TRUE))
    @@ (TJan01h08 :> IsoFields(2024, 1, 1, 8 * Hour, 0))
    @@ (TFeb14 :> IsoFields(2024, 2, 14, 14 * Hour + 45 * Minute, 0))
    @@ (TMar15 :> IsoFields(2024, 3, 15, 10 * Hour + 30 * Minute, 0))

IsoInfo(s) == IF s \in DOMAIN IsoTable THEN IsoTable[s] ELSE NotIso

\* /[Z]$|[+-]\d{2}:?\d{2}$/.test(timeStr)
HasTimezone(s) == IsoInfo(s).endsLikeZone

InvalidDateTime(reason) ==
    [isValid |-> FALSE, ts |-> 0, zoneName |-> "", invalidReason |-> reason]

\* The DateTime of what was read in the string, in zone z: the offset
\* written in the string fixes the instant, else the zone does.
fromFields(info, z) ==
    IF z \notin KnownZones THEN InvalidDateTime("unsupported zone")
    ELSE IF ~info.ok THEN InvalidDateTime("unparsable")
    ELSE [isValid |-> TRUE,
          ts |-> objToLocalTS(info.c)
                 - (IF info.hasOffset THEN info.offset ELSE ZoneOffset(z)),
          zoneName |-> z,
          invalidReason |-> ""]

\* DateTime.fromISO(timeStr, { zone }) ; zone is optional.
fromISO(s, zone) ==
    fromFields(IsoInfo(s), IF zone = <<>> THEN SystemZone ELSE zone[1])

\* dt.setZone(zone): same instant, other display zone.
setZone(dt, z) ==
    IF ~dt.isValid THEN dt
    ELSE IF z \notin KnownZones THEN InvalidDateTime("unsupported zone")
    ELSE [dt EXCEPT !.zoneName = z]

\* dt.c: the calendar fields of a valid DateTime in its zone.
calendarOf(dt) == tsToObj(dt.ts + ZoneOffset(dt.zoneName))

TwoDigits(n) ==
    IF n < 10 THEN "0" \o ToString(n) ELSE ToString(n)

OffsetSuffix(z) ==
    LET o == ZoneOffset(z)
        mag == IF o < 0 THEN -o ELSE o
    IN  IF o = 0 THEN "Z"
        ELSE (IF o < 0 THEN "-" ELSE "+") \o TwoDigits(mag \div Hour)
             \o ":" \o TwoDigits((mag % Hour) \div Minute)

\* JavaScript null, as returned by toISO() on an invalid DateTime.
Null == "<null>"

\* dt.toISO(): extended ISO 8601 with milliseconds in the DateTime's zone
\* (the milliseconds of a whole second are 000).
ThreeDigits(n) ==
    IF n < 10 THEN "00" \o ToString(n) ELSE IF n < 100 THEN "0" \o ToString(n)
    ELSE ToString(n)

formatISOMillis(c, zoneName, millis) ==
    ToString(c.year) \o "-" \o TwoDigits(c.month) \o "-" \o TwoDigits(c.day)
    \o "T" \o TwoDigits(c.time \div Hour)
    \o ":" \o TwoDigits((c.time % Hour) \div Minute)
    \o ":" \o TwoDigits((c.time % Minute) \div Second)
    \o "." \o ThreeDigits(millis) \o OffsetSuffix(zoneName)

formatISO(c, zoneName) == formatISOMillis(c, zoneName, 0)

toISO(dt) ==
    IF ~dt.isValid THEN Null ELSE formatISO(calendarOf(dt), dt.zoneName)

\* dur.get(unit): 0 for a unit the duration does not name.
durationGet(dur, u) == IF u \in DOMAIN dur THEN dur[u] ELSE 0

\* adjustTime of luxon on the calendar fields: years and months move the
\* calendar date, the day clamped to the length of the month reached; days
\* are then added to the date.
adjustCalendar(c, dur) ==
    [year |-> c.year + durationGet(dur, "years"),
     month |-> c.month + durationGet(dur, "months"),
     day |-> Min(c.day, daysInMonth(c.year + durationGet(dur, "years"),
                                    c.month + durationGet(dur, "months")))
             + durationGet(dur, "days"),
     time |-> c.time]

\* adjustTime of luxon on the clock units, which are added to the instant.
millisToAdd(dur) ==
    durationGet(dur, "hours") * Hour + durationGet(dur, "minutes") * Minute
    + durationGet(dur, "seconds") * Second

\* dt.plus(dur) for a valid DateTime and whole units.
plus(dt, dur) ==
    [dt EXCEPT !.ts = objToLocalTS(adjustCalendar(calendarOf(dt), dur))
                      - ZoneOffset(dt.zoneName) + millisToAdd(dur)]

\* dur.negate()
negate(dur) == [u \in DOMAIN dur |-> -dur[u]]

\* highOrderDiffs of luxon, one calendar unit at a time: the unit takes the
\* largest count that does not carry `earlier` past `later`, starting from
\* the difference of the calendar fields (`guess`, never more than two over).
fitsBefore(earlier, later, dur) == plus(earlier, dur).ts <= later.ts

highWater(earlier, later, dur, unit, guess) ==
    IF fitsBefore(earlier, later, [dur EXCEPT ![unit] = guess]) THEN guess
    ELSE IF fitsBefore(earlier, later, [dur EXCEPT ![unit] = guess - 1])
    THEN guess - 1
    ELSE guess - 2

calendarDur(years, months, days) ==
    [years |-> years, months |-> months, days |-> days]

monthsBetween(from, to) == to.month - from.month + (to.year - from.year) * 12

daysBetween(from, to) ==
    (objToLocalTS([to EXCEPT !.time = 0]) - objToLocalTS([from EXCEPT !.time = 0]))
        \div Day

diffYears(earlier, later) ==
    highWater(earlier, later, calendarDur(0, 0, 0), "years",
              calendarOf(later).year - calendarOf(earlier).year)

diffMonths(earlier, later, years) ==
    highWater(earlier, later, calendarDur(years, 0, 0), "months",
              monthsBetween(calendarOf(plus(earlier, calendarDur(years, 0, 0))),
                            calendarOf(later)))

diffDays(earlier, later, years, months) ==
    highWater(earlier, later, calendarDur(years, months, 0), "days",
              daysBetween(calendarOf(plus(earlier, calendarDur(years, months, 0))),
                          calendarOf(later)))

\* What remains after the calendar units is clock time.
withRemaining(years, months, days, remaining) ==
    [years |-> years, months |-> months, days |-> days,
     hours |-> remaining \div Hour,
     minutes |-> (remaining % Hour) \div Minute,
     seconds |-> (remaining % Minute) \div Second,
     milliseconds |-> 0]

diffAfterDays(earlier, later, years, months, days) ==
    withRemaining(years, months, days,
                  later.ts - plus(earlier, calendarDur(years, months, days)).ts)

diffAfterMonths(earlier, later, years, months) ==
    diffAfterDays(earlier, later, years, months,
                  diffDays(earlier, later, years, months))

diffAfterYears(earlier, later, years) ==
    diffAfterMonths(earlier, later, years, diffMonths(earlier, later, years))

\* later.diff(earlier, ["years", "months", "days", "hours", "minutes",
\* "seconds", "milliseconds"]) for earlier <= later.
diffUnits(earlier, later) ==
    diffAfterYears(earlier, later, diffYears(earlier, later))

\* a || b on strings (null and "" are falsy)
OrElse(a, b) == IF a \in {Null, EmptyStr} THEN b ELSE a

-----------------------------------------------------------------------------
(* Request arguments                                                       *)

Undef == [k |-> "undef", s |-> "", a |-> <<>>]
Str(s) == [k |-> "str", s |-> s, a |-> <<>>]
Arr(a) == [k |-> "arr", s |-> "", a |-> a]

\* JavaScript truthiness of a string | string[] | undefined value.
Truthy(v) == (v.k = "arr") \/ (v.k = "str" /\ v.s # EmptyStr)

\* JavaScript truthiness of an optional string.
TruthyStr(o) == o # <<>> /\ o[1] # EmptyStr

\* JSON.parse on the strings of the model that start with "[":
\* throws = not JSON, otherwise the parsed array and whether all items are strings.
JsonParse(s) ==
    CASE s = LitEmpty -> [throws |-> FALSE, allStrings |-> TRUE, value |-> <<>>]
      [] s = LitPair -> [throws |-> FALSE, allStrings |-> TRUE, value |-> <<T10, Bad>>]
      [] s = LitNumbers -> [throws |-> FALSE, allStrings |-> FALSE, value |-> <<>>]
      [] OTHER -> [throws |-> TRUE, allStrings |-> FALSE, value |-> <<>>]

\* times.trim().startsWith("[")
StartsWithBracket(s) == s \in {LitEmpty, LitPair, LitNumbers, LitBroken}

safelyParseTimeArray(times) ==
    IF ~Truthy(times) THEN <<NowISO>>
    ELSE IF times.k = "arr" THEN times.a
    ELSE IF StartsWithBracket(times.s)
              /\ ~JsonParse(times.s).throws
              /\ JsonParse(times.s).allStrings
         THEN JsonParse(times.s).value
    ELSE <<times.s>>


-----------------------------------------------------------------------------
(* Interaction planner                                                     *)

ErrSingleToMany ==
    "single_to_many mode requires exactly 1 base_time and multiple compare_times"
ErrManyToSingle ==
    "many_to_single mode requires multiple base_times and exactly 1 compare_time"
ErrPairwise == "pairwise mode requires both base_time and compare_time arrays"
ErrCrossProduct == "cross_product mode requires both base_time and compare_time arrays"
ErrPlanCount == "Operation count exceeds maximum allowed for interaction mode"

Failure(msg) == [success |-> FALSE, error |-> msg, data |-> <<>>]
Success(d) == [success |-> TRUE, error |-> "", data |-> <<d>>]

\* xs.slice(0, n) for 0 <= n <= xs.length
sliceFirstKeepsAll(xs, n) == xs

sliceFirst(xs, n) == SubSeq(xs, 1, n)

\* The cardinality test of an explicit single_to_many (line 1177) and of an
\* explicit many_to_single (line 1186): TRUE when the request is refused.
singleToManyRefusedLoosely(b, c) == b # 1 \/ c < 1

singleToManyRefused(b, c) == b # 1 \/ c <= 1

manyToSingleRefused(b, c) == b <= 1 \/ c # 1

\* The locals of planOperations where the mode branches join (line 1221):
\* error # "" stands for the early return of a cardinality failure.
planLocals(base_time, compare_time, interaction_mode) ==
    LET baseTimes == IF Truthy(base_time) THEN safelyParseTimeArray(base_time) ELSE <<>>
        compareTimes ==
            IF Truthy(compare_time) THEN safelyParseTimeArray(compare_time) ELSE <<>>
        b == Len(baseTimes)
        c == Len(compareTimes)
        minLength == Min(b, c)
        L(mode, count, fb, fc, err) ==
            [actualMode |-> mode, operationCount |-> count,
             finalBaseTimes |-> fb, finalCompareTimes |-> fc, error |-> err]
        truncated(mode) ==
            L(mode, minLength, sliceFirst(baseTimes, minLength),
              sliceFirst(compareTimes, minLength), "")
    IN  CASE interaction_mode = "auto_detect" ->
               IF b <= 1 /\ c <= 1
               THEN L("single_to_single", Max(b, c), baseTimes, compareTimes, "")
               ELSE IF b = 1 /\ c > 1
               THEN L("single_to_many", c, baseTimes, compareTimes, "")
               ELSE IF b > 1 /\ c <= 1
               THEN L("many_to_single", b, baseTimes, compareTimes, "")
               ELSE truncated("pairwise")
          [] interaction_mode = "single_to_many" ->
               IF singleToManyRefused(b, c)
               THEN L(interaction_mode, 0, baseTimes, compareTimes, ErrSingleToMany)
               ELSE L(interaction_mode, c, baseTimes, compareTimes, "")
          [] interaction_mode = "many_to_single" ->
               IF manyToSingleRefused(b, c)
               THEN L(interaction_mode, 0, baseTimes, compareTimes, ErrManyToSingle)
               ELSE L(interaction_mode, b, baseTimes, compareTimes, "")
          [] interaction_mode = "pairwise" ->
               IF b = 0 \/ c = 0
               THEN L(interaction_mode, 0, baseTimes, compareTimes, ErrPairwise)
               ELSE truncated(interaction_mode)
          [] interaction_mode = "cross_product" ->
               IF b = 0 \/ c = 0
               THEN L(interaction_mode, 0, baseTimes, compareTimes, ErrCrossProduct)
               ELSE L(interaction_mode, b * c, baseTimes, compareTimes, "")
          [] interaction_mode = "aggregate" -> truncated(interaction_mode)
          [] OTHER -> L(interaction_mode, 0, baseTimes, compareTimes, "")

\* planOperations without "Enforce maximum operations".
planOperationsUnbounded(base_time, compare_time, interaction_mode) ==
    LET l == planLocals(base_time, compare_time, interaction_mode)
    IN  IF l.error # "" THEN Failure(l.error)
        ELSE Success([interaction_mode |-> l.actualMode,
                      base_times |-> l.finalBaseTimes,
                      compare_times |-> l.finalCompareTimes])

planOperations(base_time, compare_time, interaction_mode) ==
    LET l == planLocals(base_time, compare_time, interaction_mode)
    IN  IF l.error # "" THEN Failure(l.error)
        ELSE IF l.operationCount > MAX_OPERATIONS THEN Failure(ErrPlanCount)
        ELSE Success([interaction_mode |-> l.actualMode,
                      base_times |-> l.finalBaseTimes,
                      compare_times |-> l.finalCompareTimes])

-----------------------------------------------------------------------------
(* Timestamp resolver                                                      *)

ErrInvalidBase == "Invalid base_time format(s)"
ErrInvalidCompare == "Invalid compare_time format(s)"

\* The body of the loop of parseTimestamps: one string to one DateTime.
\* info is what the string reads as: HasTimezone(timeStr) is info.endsLikeZone
\* and DateTime.fromISO(timeStr, { zone }) is fromFields(info, zone).
parseRead(info, timezone) ==
    IF TruthyStr(timezone) /\ ~info.endsLikeZone
    THEN fromFields(info, timezone[1])
    ELSE IF TruthyStr(timezone)
         THEN setZone(fromFields(info, SystemZone), timezone[1])
         ELSE fromFields(info, SystemZone)

parseOne(timeStr, timezone) == parseRead(IsoInfo(timeStr), timezone)

\* parseTimestamps that never lets an invalid DateTime through, pairwise or not.
parseTimestampsStrict(times, timezone, fieldName, allowInvalidForPairwise) ==
    LET timesArray == safelyParseTimeArray(times)
        parsedTimes == [i \in 1..Len(timesArray) |-> parseOne(timesArray[i], timezone)]
    IN  IF \E i \in 1..Len(parsedTimes) : ~parsedTimes[i].isValid
        THEN Failure(IF fieldName = "base_time" THEN ErrInvalidBase ELSE ErrInvalidCompare)
        ELSE Success(parsedTimes)

\* parseTimestamps without the fail-fast return: invalid DateTimes always
\* pass through to the caller.
parseTimestampsLenient(times, timezone, fieldName, allowInvalidForPairwise) ==
    LET timesArray == safelyParseTimeArray(times)
    IN  Success([i \in 1..Len(timesArray) |-> parseOne(timesArray[i], timezone)])

\* The loop of parseTimestamps over the array, and what follows it.
parseEach(timesArray, timezone) ==
    [i \in 1..Len(timesArray) |-> parseOne(timesArray[i], timezone)]

parsedOutcome(parsedTimes, fieldName, allowInvalidForPairwise) ==
    LET anyInvalid == \E i \in 1..Len(parsedTimes) : ~parsedTimes[i].isValid
    IN  IF allowInvalidForPairwise /\ anyInvalid THEN Success(parsedTimes)
        ELSE IF anyInvalid
        THEN Failure(IF fieldName = "base_time" THEN ErrInvalidBase ELSE ErrInvalidCompare)
        ELSE Success(parsedTimes)

parseTimestamps(times, timezone, fieldName, allowInvalidForPairwise) ==
    parsedOutcome(parseEach(safelyParseTimeArray(times), timezone),
                  fieldName, allowInvalidForPairwise)

-----------------------------------------------------------------------------
(* Arithmetic executors                                                    *)

Units == {"years", "months", "days", "hours", "minutes", "seconds"}

\* Object.keys(duration): the unit fields of the request that are not undefined.
DurationKeys(a) == {u \in Units : a[u] # <<>>}

\* A DurationObject that always carries the seconds field.
BuildDurationDefaulting(a) ==
    [u \in DurationKeys(a) \cup {"seconds"} |-> IF a[u] # <<>> THEN a[u][1] ELSE 0]

\* The DurationObject built from the request (lines 1858-1869).
BuildDuration(a) == [u \in DurationKeys(a) |-> a[u][1]]

\* timestamp.plus(duration) / timestamp.minus(duration)
plusMinus(timestamp, duration, operation) ==
    IF operation = "add" THEN plus(timestamp, duration)
    ELSE plus(timestamp, negate(duration))

RECURSIVE JoinErrors(_, _)
JoinErrors(errs, i) ==
    IF i > Len(errs) THEN ""
    ELSE IF errs[i] = "" THEN JoinErrors(errs, i + 1)
    ELSE LET rest == JoinErrors(errs, i + 1)
         IN  IF rest = "" THEN errs[i] ELSE errs[i] \o "; " \o rest

applyEach(timestamps, duration, operation) ==
    [i \in 1..Len(timestamps) |-> plusMinus(timestamps[i], duration, operation)]

\* The entry pushed to errors for index i (1-based here), "" when none is pushed.
applyErrorAt(timestamps, results, operation, i) ==
    IF ~timestamps[i].isValid
    THEN "Timestamp at index " \o ToString(i - 1) \o " is invalid: "
         \o timestamps[i].invalidReason
    ELSE IF ~results[i].isValid
    THEN "Invalid result from " \o operation \o " at index " \o ToString(i - 1)
         \o ": " \o results[i].invalidReason
    ELSE ""

\* What applyDuration returns once the loop is over: the joined errors if
\* any index pushed one, else the results.
appliedOutcome(timestamps, results, operation) ==
    IF \E i \in 1..Len(timestamps) : ~timestamps[i].isValid \/ ~results[i].isValid
    THEN Failure(JoinErrors([i \in 1..Len(timestamps) |->
                                applyErrorAt(timestamps, results, operation, i)], 1))
    ELSE Success(results)

applyDuration(timestamps, duration, operation) ==
    appliedOutcome(timestamps, applyEach(timestamps, duration, operation), operation)

formatResults(timestamps, returnSingle) ==
    LET resultISOs == [i \in 1..Len(timestamps) |-> OrElse(toISO(timestamps[i]), "")]
    IN  IF returnSingle /\ Len(timestamps) = 1
        THEN [shape |-> "iso", value |-> resultISOs[1]]
        ELSE [shape |-> "list",
              count |-> Len(timestamps),
              results |-> resultISOs,
              timezone |-> IF Len(timestamps) > 0 THEN timestamps[1].zoneName
                           ELSE "unknown"]

\* The closure diffOperation of the diff / duration_between case, with the
\* operation it captures.  compareTime.diff(baseTime, units) is computed from
\* the earlier to the later of the two and negated when baseTime is the
\* later; Math.floor leaves its whole units as they are.  human_readable
\* (diff.toHuman()) is not represented.
\* The sign of the duration: every unit negated when baseTime is the later.
negateIf(otherIsLater, dur) == IF otherIsLater THEN negate(dur) ELSE dur

diff(baseTime, compareTime) ==
    negateIf(baseTime.ts > compareTime.ts,
             diffUnits(IF baseTime.ts > compareTime.ts THEN compareTime ELSE baseTime,
                       IF baseTime.ts > compareTime.ts THEN baseTime ELSE compareTime))

\* The object built from the luxon duration: operation "diff" lists the
\* units from days down, "duration_between" years and months as well.
diffFields(operation, diffed, totalMs) ==
    IF operation = "diff"
    THEN [days |-> diffed.days, hours |-> diffed.hours, minutes |-> diffed.minutes,
          seconds |-> diffed.seconds, milliseconds |-> diffed.milliseconds,
          total_milliseconds |-> totalMs]
    ELSE [years |-> diffed.years, months |-> diffed.months,
          days |-> diffed.days, hours |-> diffed.hours, minutes |-> diffed.minutes,
          seconds |-> diffed.seconds, milliseconds |-> diffed.milliseconds,
          total_milliseconds |-> totalMs]

\* diffOperation with the magnitude of the difference as its total.
diffOperationMagnitude(operation, baseTime, compareTime) ==
    diffFields(operation, diff(baseTime, compareTime),
               IF compareTime.ts >= baseTime.ts THEN compareTime.ts - baseTime.ts
               ELSE baseTime.ts - compareTime.ts)

diffOperation(operation, baseTime, compareTime) ==
    diffFields(operation, diff(baseTime, compareTime),
               compareTime.ts - baseTime.ts)

\* The object pushed by the catch block of _executePairwise for index i (0-based).
PairError(msg, i, baseTime, compareTime) ==
    [error |-> msg, index |-> i,
     base_time |-> OrElse(toISO(baseTime), "Invalid DateTime"),
     compare_time |-> OrElse(toISO(compareTime), "Invalid DateTime")]

\* One iteration of the loop of _executePairwise, i 1-based.
pairwiseItem(operation, baseTimes, compareTimes, i) ==
    LET baseTime == baseTimes[i]
        compareTime == compareTimes[i]
    IN  IF ~baseTime.isValid
        THEN PairError("Invalid base_time at index " \o ToString(i - 1) \o ": "
                       \o baseTime.invalidReason, i - 1, baseTime, compareTime)
        ELSE IF ~compareTime.isValid
        THEN PairError("Invalid compare_time at index " \o ToString(i - 1) \o ": "
                       \o compareTime.invalidReason, i - 1, baseTime, compareTime)
        ELSE diffOperation(operation, baseTime, compareTime)

\* _executePairwise with the failure of a pair escaping the loop: the batch
\* ends at the first pair that fails.
_executePairwiseAborting(baseTimes, compareTimes, operation) ==
    LET minLength == Min(Len(baseTimes), Len(compareTimes))
        failing == {i \in 1..minLength : ~baseTimes[i].isValid \/ ~compareTimes[i].isValid}
        last == IF failing = {} THEN minLength
                ELSE CHOOSE i \in failing : \A j \in failing : i <= j
    IN  [i \in 1..last |-> pairwiseItem(operation, baseTimes, compareTimes, i)]

_executePairwise(baseTimes, compareTimes, operation) ==
    LET minLength == Min(Len(baseTimes), Len(compareTimes))
    IN  [i \in 1..minLength |-> pairwiseItem(operation, baseTimes, compareTimes, i)]

\* The rows lo..hi of the nested loop of _executeCrossProduct, in loop order:
\* the results of base element i against every compare element, for i = lo..hi.
RECURSIVE crossRows(_, _, _, _, _)
crossRows(baseTimes, compareTimes, operation, lo, hi) ==
    IF lo > hi THEN <<>>
    ELSE IF lo = hi
    THEN [j \in 1..Len(compareTimes) |->
             diffOperation(operation, baseTimes[lo], compareTimes[j])]
    ELSE LET mid == (lo + hi) \div 2
         IN  crossRows(baseTimes, compareTimes, operation, lo, mid)
             \o crossRows(baseTimes, compareTimes, operation, mid + 1, hi)

\* _executeCrossProduct with the two loops exchanged: compare outer, base inner.
_executeCrossProductCompareMajor(baseTimes, compareTimes, operation) ==
    LET b == Len(baseTimes)
        c == Len(compareTimes)
    IN  [k \in 1..(b * c) |->
            diffOperation(operation, baseTimes[((k - 1) % b) + 1],
                          compareTimes[((k - 1) \div b) + 1])]

_executeCrossProduct(baseTimes, compareTimes, operation) ==
    crossRows(baseTimes, compareTimes, operation, 1, Len(baseTimes))

_executeSingleToMany(baseTimes, compareTimes, operation) ==
    IF Len(baseTimes) >= 1
    THEN [j \in 1..Len(compareTimes) |->
             diffOperation(operation, baseTimes[1], compareTimes[j])]
    ELSE <<>>

_executeManyToSingle(baseTimes, compareTimes, operation) ==
    IF Len(compareTimes) >= 1
    THEN [i \in 1..Len(baseTimes) |->
             diffOperation(operation, baseTimes[i], compareTimes[1])]
    ELSE <<>>

\* The switch on plan.interaction_mode of the diff / duration_between case.
executeByMode(mode, baseTimes, compareTimes, operation) ==
    CASE mode = "single_to_single" ->
           IF Len(baseTimes) >= 1 /\ Len(compareTimes) >= 1
           THEN <<diffOperation(operation, baseTimes[1], compareTimes[1])>>
           ELSE <<>>
      [] mode = "single_to_many" -> _executeSingleToMany(baseTimes, compareTimes, operation)
      [] mode = "many_to_single" -> _executeManyToSingle(baseTimes, compareTimes, operation)
      [] mode = "pairwise" -> _executePairwise(baseTimes, compareTimes, operation)
      [] mode = "cross_product" -> _executeCrossProduct(baseTimes, compareTimes, operation)
      [] OTHER -> _executePairwise(baseTimes, compareTimes, operation)

\* "Format result based on count" (lines 2083-2098).
assembleDiff(diffResults, mode) ==
    IF Len(diffResults) = 1
    THEN [shape |-> "bare", value |-> diffResults[1]]
    ELSE [shape |-> "batch", count |-> Len(diffResults),
          results |-> diffResults, interaction_mode |-> mode]

\* The elements of a set of integers as a sequence (order fixed by the caller).
RECURSIVE SetToSeqOfKept(_)
SetToSeqOfKept(S) ==
    IF S = {} THEN <<>>
    ELSE LET x == CHOOSE y \in S : TRUE
         IN  <<x>> \o SetToSeqOfKept(S \ {x})

-----------------------------------------------------------------------------
(* Set statistics and sort                                                 *)

\* Math.round(q) of the quotient q of two whole numbers of milliseconds, the
\* dividend given in thousands (num) and den > 0: the record of the
\* thousands and the units (0..999) of the rounded value.  Math.round takes a
\* half to the next larger whole number.
roundedMs(num, den) ==
    LET whole == num \div den
        rest == num - whole * den
        units == (2000 * rest + den) \div (2 * den)
    IN  IF units = 1000 THEN [thousands |-> whole + 1, units |-> 0]
        ELSE [thousands |-> whole, units |-> units]

\* items.sort((a, b) => a.timestamp - b.timestamp): Array.prototype.sort is
\* stable, as is insertion after the last item whose key is not larger.
\* Insertion before the items whose key is equal (not stable).
RECURSIVE InsertBeforeEqual(_, _)
InsertBeforeEqual(sorted, item) ==
    IF sorted = <<>> THEN <<item>>
    ELSE IF sorted[Len(sorted)].timestamp < item.timestamp THEN Append(sorted, item)
    ELSE Append(InsertBeforeEqual(SubSeq(sorted, 1, Len(sorted) - 1), item),
                sorted[Len(sorted)])

RECURSIVE InsertByTimestamp(_, _)
InsertByTimestamp(sorted, item) ==
    IF sorted = <<>> THEN <<item>>
    ELSE IF sorted[Len(sorted)].timestamp <= item.timestamp THEN Append(sorted, item)
    ELSE Append(InsertByTimestamp(SubSeq(sorted, 1, Len(sorted) - 1), item),
                sorted[Len(sorted)])

RECURSIVE SortByTimestamp(_)
SortByTimestamp(xs) ==
    IF xs = <<>> THEN <<>>
    ELSE InsertByTimestamp(SortByTimestamp(SubSeq(xs, 1, Len(xs) - 1)), xs[Len(xs)])

\* A sort that leaves the numbers as they are.
SortNumbersSkipped(xs) == xs

\* [...xs].sort((a, b) => a - b) on numbers.
SortNumbers(xs) ==
    LET sorted == SortByTimestamp([i \in 1..Len(xs) |-> [timestamp |-> xs[i]]])
    IN  [i \in 1..Len(xs) |-> sorted[i].timestamp]

RECURSIVE SumSeq(_)
SumSeq(xs) == IF xs = <<>> THEN 0 ELSE xs[1] + SumSeq(Tail(xs))

\* The median taken as the upper of the two middle values.
MedianTimes2Upper(sorted) == 2 * sorted[(Len(sorted) \div 2) + 1]

\* Median of a sorted, non-empty list as numerator over 2 (exact for even lengths).
MedianTimes2(sorted) ==
    LET mid == Len(sorted) \div 2
    IN  IF Len(sorted) % 2 = 0 THEN sorted[mid] + sorted[mid + 1]
        ELSE 2 * sorted[mid + 1]

fromMillis(ms) == [isValid |-> TRUE, ts |-> ms, zoneName |-> SystemZone, invalidReason |-> ""]

\* DateTime.fromMillis(halves / 2).toISO() for an instant given in half seconds.
isoOfHalves(halves) ==
    formatISOMillis(calendarOf(fromMillis(halves \div 2)), SystemZone, (halves % 2) * 500)

Thrown(msg) == [thrown |-> TRUE, error |-> msg, value |-> <<>>]
Returned(v) == [thrown |-> FALSE, error |-> "", value |-> <<v>>]

\* The "timestamp analysis" branch of the stats case (lines 2143-2211).
\* std_deviation_ms and the *_human renderings are not represented; the mean
\* instant is kept to the second below it.
timestampAnalysis(baseTimestamps) ==
    LET sorted == SortNumbers(baseTimestamps)
        n == Len(sorted)
        min == sorted[1]
        max == sorted[n]
        intervals == [i \in 1..(n - 1) |-> sorted[i + 1] - sorted[i]]
        intervalSorted == SortNumbers(intervals)
    IN  [timestamp_analysis |->
            [earliest |-> toISO(fromMillis(min)),
             latest |-> toISO(fromMillis(max)),
             total_span_ms |-> max - min,
             mean_timestamp |-> toISO(fromMillis(SumSeq(baseTimestamps) \div n)),
             median_timestamp |-> isoOfHalves(MedianTimes2(sorted))],
         interval_analysis |->
            IF Len(intervals) > 0
            THEN <<[interval_count |-> Len(intervals),
                    mean_interval_ms |-> roundedMs(SumSeq(intervals), Len(intervals)),
                    min_interval_ms |-> intervalSorted[1],
                    max_interval_ms |-> intervalSorted[Len(intervals)],
                    total_intervals_span_ms |-> SumSeq(intervals)]>>
            ELSE <<>>]

\* The duration_analysis object (lines 2273-2308) for a non-empty list of
\* durations; std_deviation_ms and the *_human renderings are not represented.
durationAnalysis(durations, minLength) ==
    LET sortedDurations == SortNumbers(durations)
        n == Len(durations)
    IN  [duration_analysis |->
            [pair_count |-> minLength,
             min_duration_ms |-> sortedDurations[1],
             max_duration_ms |-> sortedDurations[n],
             mean_duration_ms |-> roundedMs(SumSeq(durations), n),
             median_duration_ms |-> roundedMs(MedianTimes2(sortedDurations), 2),
             total_duration_ms |-> SumSeq(durations)]]

\* The stats case of the switch (lines 2102-2317): the value assigned to
\* result.result, or the Error thrown.
statsCase(a) ==
    LET baseTimes == safelyParseTimeArray(a.base_time)
        compareTimes == safelyParseTimeArray(a.compare_time)
        hasCompare == Truthy(a.compare_time) /\ Len(compareTimes) > 0
        parsedBase == [i \in 1..Len(baseTimes) |-> parseOne(baseTimes[i], a.timezone)]
        compareTimezone ==
            IF TruthyStr(a.compare_time_timezone) THEN a.compare_time_timezone
            ELSE a.timezone
        minLength == Min(Len(baseTimes), Len(compareTimes))
        \* indices the pair loop does not skip
        kept == {i \in 1..minLength : baseTimes[i] # EmptyStr /\ compareTimes[i] # EmptyStr}
        pb(i) == parseOne(baseTimes[i], a.timezone)
        pc2(i) == parseOne(compareTimes[i], compareTimezone)
        firstBad ==
            IF \E i \in kept : ~pb(i).isValid \/ ~pc2(i).isValid
            THEN CHOOSE i \in kept :
                    /\ ~pb(i).isValid \/ ~pc2(i).isValid
                    /\ \A j \in kept : j < i => pb(j).isValid /\ pc2(j).isValid
            ELSE 0
        keptSeq == SortNumbers(SetToSeqOfKept(kept))
        durations == [k \in 1..Len(keptSeq) |-> pc2(keptSeq[k]).ts - pb(keptSeq[k]).ts]
    IN  IF ~Truthy(a.base_time) THEN Thrown("stats operation requires base_time")
        ELSE IF Len(baseTimes) < 2
        THEN Thrown("stats operation requires at least 2 timestamps")
        ELSE IF \E i \in 1..Len(parsedBase) : ~parsedBase[i].isValid
        THEN Thrown("Invalid time format in base_time")
        ELSE IF ~hasCompare
        THEN Returned([base_time_count |-> Len(baseTimes), compare_time_count |-> 0]
                      @@ timestampAnalysis([i \in 1..Len(parsedBase) |-> parsedBase[i].ts]))
        ELSE IF firstBad # 0
        THEN Thrown(IF ~pb(firstBad).isValid THEN "Invalid base_time format at index"
                    ELSE "Invalid compare_time format at index")
        ELSE IF Len(durations) = 0 THEN Thrown("No valid duration pairs found")
        ELSE Returned([base_time_count |-> Len(baseTimes),
                       compare_time_count |-> Len(compareTimes)]
                      @@ durationAnalysis(durations, minLength))

\* The sort case of the switch (lines 2319-2398); total_span_human is not represented.
sortCase(a) ==
    LET baseTimes == safelyParseTimeArray(a.base_time)
        sortableItems ==
            [i \in 1..Len(baseTimes) |->
                LET dt == parseOne(baseTimes[i], a.timezone)
                IN  [original |-> baseTimes[i], timestamp |-> dt.ts, parsed |-> dt]]
        sorted == SortByTimestamp(sortableItems)
        n == Len(sorted)
    IN  IF ~Truthy(a.base_time) THEN Thrown("sort operation requires base_time")
        ELSE IF Len(baseTimes) < 2
        THEN Thrown("sort operation requires at least 2 timestamps")
        ELSE IF \E i \in 1..Len(sortableItems) : ~sortableItems[i].parsed.isValid
        THEN Thrown("Invalid time format in base_time")
        ELSE Returned(
               [input_count |-> Len(baseTimes),
                sorted_original_format |-> [i \in 1..n |-> sorted[i].original],
                sorted_iso_format |-> [i \in 1..n |-> toISO(sorted[i].parsed)],
                sorted_timestamps |-> [i \in 1..n |-> sorted[i].timestamp],
                sort_metadata |->
                   [earliest_time |-> toISO(sorted[1].parsed),
                    latest_time |-> toISO(sorted[n].parsed),
                    total_span_ms |-> sorted[n].timestamp - sorted[1].timestamp,
                    timezone_used |-> IF TruthyStr(a.timezone) THEN a.timezone[1]
                                      ELSE "system"]])

-----------------------------------------------------------------------------
(* handleTimeCalculator                                                    *)

Operations == {"add", "subtract", "diff", "duration_between", "stats", "sort"}
Modes == {"auto_detect", "single_to_many", "many_to_single", "pairwise",
          "cross_product", "aggregate"}

ErrInvalidArguments == "Invalid arguments"
ErrSumCount == "Operation count exceeds maximum allowed for add/subtract operation"
ErrNoDuration == "No duration specified"
ErrCompareRequired == "compare_time is required"

\* TimeCalculatorSchema.safeParse(args).success for the argument objects of the
\* model: the enums, and .min(1) on array values.
SchemaAccepts(a) ==
    /\ a.operation \in Operations
    /\ a.interaction_mode = <<>> \/ a.interaction_mode[1] \in Modes
    /\ a.base_time.k = "arr" => Len(a.base_time.a) >= 1
    /\ a.compare_time.k = "arr" => Len(a.compare_time.a) >= 1

\* configManager.config.debugMode
VARIABLE debugMode

\* configManager.isDebugMode()
isDebugMode == debugMode

\* The metadata block: { calculation_time: DateTime.now().toISO() || "",
\* calculation_timezone: DateTime.now().zoneName || "system" }.
metadataBlock == [calculation_time |-> NowISO, calculation_timezone |-> SystemZone]

\* createErrorResponse that never attaches the metadata block.
createErrorResponseBare(operation, error) ==
    [type |-> "error", success |-> FALSE, operation |-> operation, error |-> error,
     metadata |-> <<>>]

\* createErrorResponse(operation, error)
createErrorResponse(operation, error) ==
    [type |-> "error", success |-> FALSE, operation |-> operation, error |-> error,
     metadata |-> IF isDebugMode THEN <<metadataBlock>> ELSE <<>>]

\* The CalculationResult serialised by the final return of the handler, with
\* "Set metadata for successful response only if debug mode is enabled".
resultResponse(operation, mode, r) ==
    [type |-> "result", operation |-> operation, interaction_mode |-> mode, result |-> r,
     metadata |-> IF isDebugMode THEN <<metadataBlock>> ELSE <<>>]

\* The calls of DateTime.now() made by safelyParseTimeArray(times), and by
\* the metadata block of a response.
nowCallsOf(times) == IF ~Truthy(times) THEN 1 ELSE 0
nowCallsOfMetadata == IF isDebugMode THEN 2 ELSE 0

\* An Error that leaves the handler: the promise it returned rejects.
rejection(error) == [type |-> "thrown", error |-> error]

\* formatDuration of src/src/utils/date-utils.ts, on whole milliseconds.
MsPerSecond == 1000
MsPerMinute == 60 * MsPerSecond
MsPerHour == 60 * MsPerMinute
MsPerDay == 24 * MsPerHour

Abs(n) == IF n < 0 THEN -n ELSE n

\* `${n} unit${n !== 1 ? "s" : ""}`
unitPart(n, unit) == ToString(n) \o " " \o unit \o (IF n # 1 THEN "s" ELSE "")

\* The parts pushed for the units that are > 0.
durationParts(days, hours, minutes, seconds) ==
    (IF days > 0 THEN <<unitPart(days, "day")>> ELSE <<>>)
    \o (IF hours > 0 THEN <<unitPart(hours, "hour")>> ELSE <<>>)
    \o (IF minutes > 0 THEN <<unitPart(minutes, "minute")>> ELSE <<>>)
    \o (IF seconds > 0 THEN <<unitPart(seconds, "second")>> ELSE <<>>)

\* parts.join(", ")
RECURSIVE join(_)
join(parts) ==
    IF Len(parts) = 0 THEN ""
    ELSE IF Len(parts) = 1 THEN parts[1]
    ELSE parts[1] \o ", " \o join(Tail(parts))

signedParts(parts, isNegative) ==
    IF Len(parts) = 0 THEN "0 seconds"
    ELSE IF isNegative THEN "-" \o join(parts) ELSE join(parts)

formatAbs(absMs, isNegative) ==
    signedParts(durationParts(absMs \div MsPerDay,
                              (absMs % MsPerDay) \div MsPerHour,
                              (absMs % MsPerHour) \div MsPerMinute,
                              (absMs % MsPerMinute) \div MsPerSecond),
                isNegative)

\* formatDuration without the sign.
formatDurationMagnitude(milliseconds) == formatAbs(Abs(milliseconds), FALSE)

formatDuration(milliseconds) == formatAbs(Abs(milliseconds), milliseconds < 0)

VARIABLES
    durationMs,         \* a number of milliseconds to render
    rendered            \* formatDuration of durationMs and of -durationMs, once called

VARIABLES
    pc,                 \* position in handleTimeCalculator
    args,               \* the argument object of the call
    planResult,         \* planOperations(...)
    baseTimesResult,    \* parseTimestamps(base_time, ...)
    compareTimesResult, \* parseTimestamps(compare_time, ...)
    baseResults,        \* applyDuration(baseTimes, ...)
    compareResults,     \* applyDuration(compareTimes, ...)
    diffResults,        \* the list built by the interaction-mode switch
    result,             \* result.result
    response,           \* what the call produced: a response, or a rejection
    nowCalls            \* calls of DateTime.now() made so far for this call

vars == <<pc, args, planResult, baseTimesResult, compareTimesResult, baseResults,
          compareResults, diffResults, result, response, nowCalls, debugMode,
          durationMs, rendered>>

NoArgs ==
    [operation |-> "", interaction_mode |-> <<>>, base_time |-> Undef,
     compare_time |-> Undef, timezone |-> <<>>, compare_time_timezone |-> <<>>,
     years |-> <<>>, months |-> <<>>, days |-> <<>>, hours |-> <<>>,
     minutes |-> <<>>, seconds |-> <<>>]

InitCall ==
    /\ pc = "idle"
    /\ args = NoArgs
    /\ planResult = <<>>
    /\ baseTimesResult = <<>>
    /\ compareTimesResult = <<>>
    /\ baseResults = <<>>
    /\ compareResults = <<>>
    /\ diffResults = <<>>
    /\ result = <<>>
    /\ response = <<>>
    /\ nowCalls = 0

\* The server started with neither CHRONO_DEBUG nor DEBUG set to "true", and
\* started in any environment.
\* formatDuration has not been called.
NotRendered == durationMs = 0 /\ rendered = <<>>

Init == InitCall /\ debugMode = FALSE /\ NotRendered
InitAnyEnvironment == InitCall /\ debugMode \in BOOLEAN /\ NotRendered

\* configManager.setDebugMode(enabled).  The handler has no await: it runs
\* from its call to its return before any other code does.
setDebugMode(enabled) ==
    /\ pc \in {"idle", "done"}
    /\ debugMode' = enabled
    /\ UNCHANGED <<pc, args, planResult, baseTimesResult, compareTimesResult,
                   baseResults, compareResults, diffResults, result, response, nowCalls,
                   durationMs, rendered>>

\* The calls of DateTime.now() of one step of the handler: those of its
\* safelyParseTimeArray calls and, when the step builds the response, those
\* of the metadata block.
NowCalls(parsing) ==
    nowCalls' = nowCalls + parsing
                + (IF pc' = "done" /\ response'[1].type # "thrown"
                   THEN nowCallsOfMetadata ELSE 0)

\* return createErrorResponse(...) / throw: the call is over.
Finish(r) ==
    /\ response' = <<r>>
    /\ pc' = "done"

requestedMode(a) ==
    IF a.interaction_mode = <<>> THEN "auto_detect" ELSE a.interaction_mode[1]

plan == planResult[1].data[1]
isPairwise == plan.interaction_mode = "pairwise"
baseTimes == baseTimesResult[1].data[1]
compareTimes == compareTimesResult[1].data[1]

\* The call and the schema check (lines 1761-1772).
Call(a) ==
    /\ pc = "idle"
    /\ args' = a
    /\ IF SchemaAccepts(a)
       THEN pc' = "plan" /\ UNCHANGED response
       ELSE Finish(createErrorResponse("unknown", ErrInvalidArguments))
    /\ nowCalls' = IF pc' = "done" THEN nowCallsOfMetadata ELSE 0
    /\ UNCHANGED <<durationMs, rendered, debugMode, planResult, baseTimesResult, compareTimesResult,
                   baseResults, compareResults, diffResults, result>>

\* Lines 1774-1785.
Plan ==
    /\ pc = "plan"
    /\ planResult' =
           <<planOperations(args.base_time, args.compare_time, requestedMode(args))>>
    /\ IF planResult'[1].success
       THEN pc' = "resolve_base" /\ UNCHANGED response
       ELSE Finish(createErrorResponse(args.operation, planResult'[1].error))
    /\ NowCalls(0)
    /\ UNCHANGED <<durationMs, rendered, debugMode, args, baseTimesResult, compareTimesResult, baseResults,
                   compareResults, diffResults, result>>

\* Lines 1787-1801.
ResolveBase ==
    /\ pc = "resolve_base"
    /\ baseTimesResult' =
           <<parseTimestamps(args.base_time, args.timezone, "base_time", isPairwise)>>
    /\ IF baseTimesResult'[1].success
       THEN pc' = "switch" /\ UNCHANGED response
       ELSE Finish(createErrorResponse(args.operation, baseTimesResult'[1].error))
    /\ NowCalls(nowCallsOf(args.base_time))
    /\ UNCHANGED <<durationMs, rendered, debugMode, args, planResult, compareTimesResult, baseResults,
                   compareResults, diffResults, result>>

\* The count of the base times alone.
summedOperationCountBaseOnly(parsedBase, compare_time) == Len(parsedBase)

\* "Calculate operation count for add/subtract: sum of both array lengths"
\* (lines 1842-1847).
summedOperationCount(parsedBase, compare_time) ==
    Len(parsedBase)
    + (IF Truthy(compare_time) THEN Len(safelyParseTimeArray(compare_time)) ELSE 0)

\* case add / subtract up to the duration applied to the base times
\* (lines 1840-1887).
AddSubtractBase ==
    /\ pc = "switch"
    /\ args.operation \in {"add", "subtract"}
    /\ LET operationCount == summedOperationCount(baseTimes, args.compare_time)
           duration == BuildDuration(args)
       IN  IF operationCount > MAX_OPERATIONS
           THEN /\ Finish(createErrorResponse(args.operation, ErrSumCount))
                /\ UNCHANGED baseResults
           ELSE IF DOMAIN duration = {}
           THEN /\ Finish(createErrorResponse(args.operation, ErrNoDuration))
                /\ UNCHANGED baseResults
           ELSE /\ baseResults' = <<applyDuration(baseTimes, duration, args.operation)>>
                /\ IF baseResults'[1].success
                   THEN pc' = "add_compare" /\ UNCHANGED response
                   ELSE Finish(createErrorResponse(args.operation,
                                                   baseResults'[1].error))
    /\ NowCalls(0)
    /\ UNCHANGED <<durationMs, rendered, debugMode, args, planResult, baseTimesResult, compareTimesResult,
                   compareResults, diffResults, result>>

\* case add / subtract from "Handle compare_time if provided" to the break
\* (lines 1889-1948).
AddSubtractCompare ==
    /\ pc = "add_compare"
    /\ IF ~Truthy(args.compare_time)
       THEN /\ result' = <<formatResults(baseResults[1].data[1], Len(baseTimes) = 1)>>
            /\ pc' = "return"
            /\ UNCHANGED <<compareTimesResult, compareResults, response>>
       ELSE /\ compareTimesResult' =
                   <<parseTimestamps(
                         args.compare_time,
                         IF TruthyStr(args.compare_time_timezone)
                         THEN args.compare_time_timezone ELSE args.timezone,
                         "compare_time", FALSE)>>
            /\ IF ~compareTimesResult'[1].success
               THEN /\ Finish(createErrorResponse(args.operation,
                                                  compareTimesResult'[1].error))
                    /\ UNCHANGED <<compareResults, result>>
               ELSE /\ compareResults' =
                           <<applyDuration(compareTimesResult'[1].data[1],
                                           BuildDuration(args), args.operation)>>
                    /\ IF ~compareResults'[1].success
                       THEN /\ Finish(createErrorResponse(args.operation,
                                                          compareResults'[1].error))
                            /\ UNCHANGED result
                       ELSE /\ result' =
                                 <<[shape |-> "base_and_compare",
                                    base_results |->
                                        formatResults(baseResults[1].data[1], FALSE),
                                    compare_results |->
                                        formatResults(compareResults'[1].data[1], FALSE)]>>
                            /\ pc' = "return"
                            /\ UNCHANGED response
    /\ NowCalls(0)
    /\ UNCHANGED <<durationMs, rendered, debugMode, args, planResult, baseTimesResult,
                   baseResults, diffResults>>

\* A diff / duration_between case that lets a request without compare_time
\* through to the resolver.
compareTimeMissingIgnored(compare_time) == FALSE

\* if (!validatedArgs.compare_time) (line 1952)
compareTimeMissing(compare_time) == ~Truthy(compare_time)

\* case diff / duration_between up to the resolved compare times
\* (lines 1950-1978).
DiffResolveCompare ==
    /\ pc = "switch"
    /\ args.operation \in {"diff", "duration_between"}
    /\ IF compareTimeMissing(args.compare_time)
       THEN /\ Finish(createErrorResponse(args.operation, ErrCompareRequired))
            /\ UNCHANGED compareTimesResult
       ELSE /\ compareTimesResult' =
                   <<parseTimestamps(
                         args.compare_time,
                         IF TruthyStr(args.compare_time_timezone)
                         THEN args.compare_time_timezone ELSE args.timezone,
                         "compare_time", isPairwise)>>
            /\ IF compareTimesResult'[1].success
               THEN pc' = "execute" /\ UNCHANGED response
               ELSE Finish(createErrorResponse(args.operation,
                                               compareTimesResult'[1].error))
    /\ NowCalls(0)
    /\ UNCHANGED <<durationMs, rendered, debugMode, args, planResult, baseTimesResult, baseResults,
                   compareResults, diffResults, result>>

\* The interaction-mode switch and the result formatting (lines 2036-2099).
DiffExecute ==
    /\ pc = "execute"
    /\ diffResults' = executeByMode(plan.interaction_mode, baseTimes, compareTimes,
                                    args.operation)
    /\ result' = <<assembleDiff(diffResults', plan.interaction_mode)>>
    /\ pc' = "return"
    /\ NowCalls(0)
    /\ UNCHANGED <<durationMs, rendered, debugMode, args, planResult, baseTimesResult, compareTimesResult,
                   baseResults, compareResults, response>>

\* What a case of the switch that threw or assigned result.result leaves:
\* the Error escapes the handler, or the handler goes on to its return.
CaseOutcome(r) ==
    IF r.thrown
    THEN Finish(rejection(r.error)) /\ UNCHANGED result
    ELSE result' = r.value /\ pc' = "return" /\ UNCHANGED response

\* case stats (lines 2102-2317).
Stats ==
    /\ pc = "switch"
    /\ args.operation = "stats"
    /\ CaseOutcome(statsCase(args))
    /\ NowCalls(0)
    /\ UNCHANGED <<durationMs, rendered, debugMode, args, planResult, baseTimesResult, compareTimesResult,
                   baseResults, compareResults, diffResults>>

\* case sort (lines 2319-2398).
Sort ==
    /\ pc = "switch"
    /\ args.operation = "sort"
    /\ CaseOutcome(sortCase(args))
    /\ NowCalls(0)
    /\ UNCHANGED <<durationMs, rendered, debugMode, args, planResult, baseTimesResult, compareTimesResult,
                   baseResults, compareResults, diffResults>>

\* The final return of the handler (lines 2407-2423).
Return ==
    /\ pc = "return"
    /\ Finish(resultResponse(args.operation, plan.interaction_mode, result[1]))
    /\ NowCalls(0)
    /\ UNCHANGED <<durationMs, rendered, debugMode, args, planResult, baseTimesResult, compareTimesResult,
                   baseResults, compareResults, diffResults, result>>

-----------------------------------------------------------------------------
(* Requests                                                                *)

Elems == {T10, T12, Bad}
SingleStrings == {T10, Bad, EmptyStr, LitEmpty, LitPair}
Arrays == UNION {[1..n -> Elems] : n \in 0..MaxLen}
TimeValues == {Undef} \cup {Str(s) : s \in SingleStrings} \cup {Arr(a) : a \in Arrays}

WithTimes(op, mode, b, c) ==
    [NoArgs EXCEPT !.operation = op, !.interaction_mode = mode,
                   !.base_time = b, !.compare_time = c]

\* The sizes of the documented examples: pairwise over 5 and 3 elements (the
\* two unmatched ones unparseable), cross product over 3 and 4.
ExampleRequests ==
    {WithTimes(op, <<"pairwise">>, Arr(<<T10, T12, T10, Bad, Bad>>), Arr(<<T12, T12, T10>>)) :
        op \in {"diff", "duration_between"}}
    \cup {WithTimes(op, <<"cross_product">>, Arr(<<T10, T12, T12>>),
                     Arr(<<T10, T12, T12, T10>>)) : op \in {"diff", "duration_between"}}

\* Every operation and mode over every pair of time values; add and subtract
\* come with and without a duration.
Requests ==
    LET plain == {WithTimes(op, <<m>>, b, c) :
                    op \in Operations, m \in Modes, b \in TimeValues, c \in TimeValues}
    IN  plain
        \cup {[a EXCEPT !.hours = <<1>>] : a \in {x \in plain : x.operation \in {"add", "subtract"}}}
        \cup {WithTimes("diff", <<>>, Str(T10), Str(T12)),
              WithTimes("multiply", <<>>, Str(T10), Str(T12)),
              WithTimes("diff", <<"zip">>, Str(T10), Str(T12))}
        \cup ExampleRequests

\* A caller invokes the tool with one of the requests.
Request ==
    /\ pc = "idle"
    /\ \E a \in Requests : Call(a)

Next ==
    \/ Request
    \/ Plan
    \/ ResolveBase
    \/ AddSubtractBase
    \/ AddSubtractCompare
    \/ DiffResolveCompare
    \/ DiffExecute
    \/ Stats
    \/ Sort
    \/ Return

Spec == Init /\ [][Next]_vars

-----------------------------------------------------------------------------
(* Requests around the operation-count ceiling                             *)

Fill(n, t) == [i \in 1..n |-> t]

\* Array lengths at and just over the ceiling: alone, as the two halves of a
\* sum just over it, and as the two factors of a product.
CeilingLengths ==
    {100, 101, (MAX_OPERATIONS \div 2) + 1, MAX_OPERATIONS, MAX_OPERATIONS + 1}

CeilingValues ==
    {Undef, Str(T10), Str(Bad)} \cup {Arr(Fill(n, T10)) : n \in CeilingLengths}

WithHour(a) == [a EXCEPT !.hours = <<1>>]

\* add in every mode, with a duration of one hour and without any; diff under
\* auto_detect and cross_product; subtract and duration_between under
\* auto_detect; stats and sort over small or over-the-ceiling inputs only.
CeilingRequests ==
    {WithTimes("add", <<m>>, b, c) :
        m \in Modes, b \in CeilingValues, c \in CeilingValues}
    \cup {WithHour(WithTimes("add", <<m>>, b, c)) :
            m \in Modes, b \in CeilingValues, c \in CeilingValues}
    \cup {WithTimes("diff", <<m>>, b, c) :
            m \in {"auto_detect", "cross_product"},
            b \in CeilingValues, c \in CeilingValues}
    \cup {WithHour(WithTimes("subtract", <<"auto_detect">>, b, c)) :
            b \in CeilingValues, c \in CeilingValues}
    \cup {WithTimes("duration_between", <<"auto_detect">>, b, c) :
            b \in CeilingValues, c \in CeilingValues}
    \cup {WithTimes(op, <<"auto_detect">>, Arr(Fill(n, T10)), Undef) :
            op \in {"stats", "sort"}, n \in {2, MAX_OPERATIONS + 1}}

RequestCeiling ==
    /\ pc = "idle"
    /\ \E a \in CeilingRequests : Call(a)

NextCeiling ==
    \/ RequestCeiling
    \/ Plan
    \/ ResolveBase
    \/ AddSubtractBase
    \/ AddSubtractCompare
    \/ DiffResolveCompare
    \/ DiffExecute
    \/ Stats
    \/ Sort
    \/ Return

SpecCeiling == Init /\ [][NextCeiling]_vars

-----------------------------------------------------------------------------
(* Requests over days and months, and over samples for stats and sort      *)

\* Longest array of samples enumerated for stats and sort.
MaxSamples == 3

Zones == {<<>>, <<"America/New_York">>}
WithZone(a, z) == [a EXCEPT !.timezone = z]

PairElems ==
    {T10, T10NY, T10s1, T12, TJan08, TJan30, TJan31, TFeb15, TFeb29, TMar01,
     TLocal10, TDay0115}
SamplesOf(E, lo, hi) == UNION {[1..n -> E] : n \in lo..hi}

\* One base against one compare, with and without a display zone.
PairRequests ==
    {WithZone(WithTimes(op, <<>>, Str(a), Str(b)), z) :
        op \in {"diff", "duration_between"}, a \in PairElems, b \in PairElems, z \in Zones}

\* Two timestamps against the same two in the other order.
SwappedRequests ==
    {WithTimes(op, <<"pairwise">>, Arr(<<a, b>>), Arr(<<b, a>>)) :
        op \in {"diff", "duration_between"}, a \in PairElems, b \in PairElems}

\* stats over pairs, over timestamps alone, and the documented example.
StatsRequests ==
    {WithTimes("stats", <<>>, Arr(b), Arr(c)) :
        b \in SamplesOf({T10, T10s1}, 2, MaxSamples),
        c \in SamplesOf({T10, T10s1, T12, TJan08}, 1, MaxSamples)}
    \cup {WithTimes("stats", <<>>, Arr(b), Undef) :
            b \in SamplesOf({T10, T10s1, T12}, 1, MaxSamples)}
    \cup {WithTimes("stats", <<>>, Arr(<<T10, T10, T10>>), Arr(<<TJan08, TJan15, TJan22>>))}
    \cup {WithTimes("stats", <<>>, Arr(<<T10, T10s1>>), Arr(c)) :
            c \in {<<EmptyStr, T12>>, <<T12, EmptyStr>>, <<EmptyStr, EmptyStr>>}}

\* sort over samples of which two are the same instant written differently,
\* and the documented example.
SortRequests ==
    {WithZone(WithTimes("sort", <<>>, Arr(b), Undef), z) :
        b \in SamplesOf({T10, T10NY, T10s1, T12}, 1, MaxSamples), z \in Zones}
    \cup {WithTimes("sort", <<>>, Arr(<<TMar15, TJan01h08, TFeb14>>), Undef)}

\* add and subtract of one month and one day, one hour.
MonthRequests ==
    {[WithTimes(op, <<>>, b, c) EXCEPT !.months = <<1>>, !.days = <<1>>, !.hours = <<1>>] :
        op \in {"add", "subtract"},
        b \in {Str(TJan31), Str(TFeb29), Arr(<<T10, TJan31>>)},
        c \in {Undef, Str(TFeb15)}}

CalendarRequests ==
    PairRequests \cup SwappedRequests \cup StatsRequests \cup SortRequests
    \cup MonthRequests

RequestCalendar ==
    /\ pc = "idle"
    /\ \E a \in CalendarRequests : Call(a)

NextCalendar ==
    \/ RequestCalendar
    \/ Plan
    \/ ResolveBase
    \/ AddSubtractBase
    \/ AddSubtractCompare
    \/ DiffResolveCompare
    \/ DiffExecute
    \/ Stats
    \/ Sort
    \/ Return

SpecCalendar == Init /\ [][NextCalendar]_vars

-----------------------------------------------------------------------------
(* Requests with the debug flag set either way                             *)

DebugValues ==
    {Undef, Str(T10), Str(Bad), Arr(<<T10, T12>>), Arr(<<T10, Bad>>)}

DebugRequests ==
    LET plain == {WithTimes(op, <<m>>, b, c) :
                    op \in Operations,
                    m \in {"auto_detect", "pairwise", "single_to_many"},
                    b \in DebugValues, c \in DebugValues}
    IN  plain
        \cup {WithHour(a) : a \in {x \in plain : x.operation \in {"add", "subtract"}}}
        \cup {WithTimes("multiply", <<>>, Str(T10), Str(T12))}

RequestDebug ==
    /\ pc = "idle"
    /\ \E a \in DebugRequests : Call(a)

SetDebug == \E enabled \in BOOLEAN : setDebugMode(enabled)

NextDebug ==
    \/ RequestDebug
    \/ SetDebug
    \/ Plan
    \/ ResolveBase
    \/ AddSubtractBase
    \/ AddSubtractCompare
    \/ DiffResolveCompare
    \/ DiffExecute
    \/ Stats
    \/ Sort
    \/ Return

SpecDebug == InitAnyEnvironment /\ [][NextDebug]_vars

-----------------------------------------------------------------------------
(* Properties                                                              *)

\* The sequences the handler resolves (absent defaults to the current instant).
givenBase == safelyParseTimeArray(args.base_time)
givenCompare == safelyParseTimeArray(args.compare_time)

\* The lengths the planner sees (absent counts as empty).
plannedBaseCount == IF Truthy(args.base_time) THEN Len(givenBase) ELSE 0
plannedCompareCount == IF Truthy(args.compare_time) THEN Len(givenCompare) ELSE 0

compareZone ==
    IF TruthyStr(args.compare_time_timezone) THEN args.compare_time_timezone
    ELSE args.timezone

Parseable(s, zone) == parseOne(s, zone).isValid
Instant(s, zone) == parseOne(s, zone).ts
AnyUnparseable(seq, zone) == \E i \in 1..Len(seq) : ~Parseable(seq[i], zone)

Answered == pc = "done"
PlanAccepted == planResult # <<>> /\ planResult[1].success
IsDiffOperation == args.operation \in {"diff", "duration_between"}
IsAddSubtract == args.operation \in {"add", "subtract"}

\* The result slots of a diff / duration_between result, bare or enveloped.
Slots(r) == IF r.shape = "bare" THEN <<r.value>> ELSE r.results
IsErrorItem(x) == "error" \in DOMAIN x

\* Slot i of the response is what pair i alone determines: an error object
\* carrying index i when one side is unparseable, else the difference.
SlotIsPair(slot, i) ==
    IF Parseable(givenBase[i], args.timezone) /\ Parseable(givenCompare[i], compareZone)
    THEN /\ ~IsErrorItem(slot)
         /\ slot.total_milliseconds =
                Instant(givenCompare[i], compareZone) - Instant(givenBase[i], args.timezone)
    ELSE /\ IsErrorItem(slot)
         /\ slot.index = i - 1

\* C1: diff / duration_between in pairwise mode over n base and n compare
\* timestamps answers with exactly n slots in input order; slot i is an error
\* object with index i exactly when base[i] or compare[i] is unparseable and
\* is the difference of pair i otherwise, whatever the other pairs are.
C1_PairwiseIsolation ==
    (/\ Answered /\ IsDiffOperation /\ PlanAccepted
     /\ plan.interaction_mode = "pairwise"
     /\ Len(givenBase) = Len(givenCompare))
    => /\ response[1].type = "result"
       /\ Len(Slots(response[1].result)) = Len(givenBase)
       /\ \A i \in 1..Len(givenBase) : SlotIsPair(Slots(response[1].result)[i], i)

C1_Witness ==
    /\ Answered /\ IsDiffOperation /\ PlanAccepted
    /\ plan.interaction_mode = "pairwise"
    /\ Len(givenBase) = 3 /\ Len(givenCompare) = 3
    /\ response[1].type = "result"
    /\ ~IsErrorItem(Slots(response[1].result)[1])
    /\ IsErrorItem(Slots(response[1].result)[2])
    /\ ~IsErrorItem(Slots(response[1].result)[3])

NonPairwiseModes == {"single_to_single", "single_to_many", "many_to_single", "cross_product"}

\* C2 as stated: in every resolved mode other than pairwise, an unparseable
\* base or compare timestamp makes the whole request fail and return no
\* result item (a request that ends in a rejection is counted as failing).
C2_FailFastEveryOperation ==
    (/\ Answered /\ PlanAccepted
     /\ plan.interaction_mode \in NonPairwiseModes
     /\ \/ AnyUnparseable(givenBase, args.timezone)
        \/ Truthy(args.compare_time) /\ AnyUnparseable(givenCompare, compareZone))
    => /\ response[1].type # "result"
       /\ result = <<>>
       /\ diffResults = <<>>

\* C2 amended: in every resolved mode other than pairwise, an unparseable base
\* timestamp (any operation) or an unparseable compare timestamp (add,
\* subtract, diff, duration_between) makes the whole request return one error
\* response and no result item.
C2_FailFast ==
    (/\ Answered /\ PlanAccepted
     /\ plan.interaction_mode # "pairwise"
     /\ \/ AnyUnparseable(givenBase, args.timezone)
        \/ /\ IsDiffOperation \/ IsAddSubtract
           /\ Truthy(args.compare_time)
           /\ AnyUnparseable(givenCompare, compareZone))
    => /\ response[1].type = "error"
       /\ result = <<>>
       /\ diffResults = <<>>

C2_Witness ==
    /\ Answered /\ PlanAccepted /\ IsDiffOperation
    /\ plan.interaction_mode = "cross_product"
    /\ \E i \in 1..Len(givenBase) : Parseable(givenBase[i], args.timezone)
    /\ ~AnyUnparseable(givenBase, args.timezone)
    /\ Len(givenCompare) = 2
    /\ Parseable(givenCompare[1], compareZone)
    /\ ~Parseable(givenCompare[2], compareZone)
    /\ response[1].type = "error"
    /\ response[1].error = ErrInvalidCompare

\* C3: handleTimeCalculator never throws or rejects: every call ends by
\* returning a response, a structured error response on every failure path.
C3_NeverThrows ==
    Answered => response[1].type \in {"error", "result"}

-----------------------------------------------------------------------------
(* Properties of the operation-count ceiling and of the planner            *)

plannedLocals == planLocals(args.base_time, args.compare_time, requestedMode(args))
NothingResolved == baseTimesResult = <<>> /\ compareTimesResult = <<>>
NothingComputed ==
    baseResults = <<>> /\ compareResults = <<>> /\ diffResults = <<>> /\ result = <<>>
BaseResolved == baseTimesResult # <<>> /\ baseTimesResult[1].success
summedLength == Len(givenBase) + plannedCompareCount

\* C4: a plan whose operation count exceeds 10000 is rejected with the
\* planner's operation-count error before any timestamp is resolved and any
\* arithmetic runs, whatever the operation; a plan whose count is at most
\* 10000 passes the planner.
C4_PlannerCeiling ==
    (planResult # <<>> /\ plannedLocals.error = "")
    => IF plannedLocals.operationCount > MAX_OPERATIONS
       THEN /\ Answered
            /\ response[1].type = "error"
            /\ response[1].error = ErrPlanCount
            /\ NothingResolved
            /\ NothingComputed
       ELSE planResult[1].success

C4_Witness ==
    /\ Answered /\ IsAddSubtract
    /\ plannedLocals.error = ""
    /\ plannedLocals.operationCount > MAX_OPERATIONS
    /\ summedLength > MAX_OPERATIONS
    /\ response[1].error = ErrPlanCount

\* The add / subtract request of the example: that many valid base
\* timestamps, no compare_time, a duration, a plan that is accepted.
PlainBatchOf(n) ==
    /\ Len(givenBase) = n
    /\ ~Truthy(args.compare_time)
    /\ ~AnyUnparseable(givenBase, args.timezone)
    /\ DurationKeys(args) # {}
    /\ PlanAccepted

SucceedsWithCount(n) ==
    /\ response[1].type = "result"
    /\ response[1].result.shape = "list"
    /\ response[1].result.count = n
    /\ Len(response[1].result.results) = n

\* C5 as stated: add / subtract is rejected with an operation-count error
\* whenever the two sequence lengths sum to more than 10000, and no duration
\* is applied; 10000 base timestamps without compare_time succeed with
\* count = 10000.
C5_SummedCeilingAlways ==
    (Answered /\ IsAddSubtract /\ SchemaAccepts(args))
    => /\ summedLength > MAX_OPERATIONS
          => /\ response[1].type = "error"
             /\ response[1].error \in {ErrPlanCount, ErrSumCount}
             /\ baseResults = <<>> /\ compareResults = <<>>
       /\ PlainBatchOf(MAX_OPERATIONS) => SucceedsWithCount(MAX_OPERATIONS)

\* C5 amended: when the two lengths sum to more than 10000, add / subtract is
\* rejected and no duration is applied; the error is the operation-count
\* error of the summed check whenever the plan was accepted and the base
\* timestamps resolved, and otherwise the planner's error or the
\* invalid-base error that ended the request earlier.  10000 base timestamps
\* without compare_time succeed with count = 10000.
C5_SummedCeiling ==
    (Answered /\ IsAddSubtract /\ SchemaAccepts(args))
    => /\ summedLength > MAX_OPERATIONS
          => /\ response[1].type = "error"
             /\ baseResults = <<>> /\ compareResults = <<>> /\ result = <<>>
             /\ response[1].error =
                    IF ~PlanAccepted THEN planResult[1].error
                    ELSE IF ~BaseResolved THEN ErrInvalidBase
                    ELSE ErrSumCount
       /\ PlainBatchOf(MAX_OPERATIONS) => SucceedsWithCount(MAX_OPERATIONS)

C5_Witness ==
    /\ Answered /\ IsAddSubtract
    /\ PlanAccepted
    /\ plan.interaction_mode = "pairwise"
    /\ plannedLocals.operationCount <= MAX_OPERATIONS
    /\ summedLength > MAX_OPERATIONS
    /\ DurationKeys(args) # {}
    /\ response[1].error = ErrSumCount

\* C6 as stated: add / subtract with none of the six unit fields set always
\* fails with the empty-duration error.
C6_EmptyDurationAlways ==
    (Answered /\ IsAddSubtract /\ SchemaAccepts(args) /\ DurationKeys(args) = {})
    => /\ response[1].type = "error"
       /\ response[1].error = ErrNoDuration

\* C6 amended: add / subtract with none of the six unit fields set always
\* fails, whatever the cardinality of base_time, and applies nothing; the
\* error is the empty-duration error whenever the plan was accepted, the base
\* timestamps resolved and the summed count is within the ceiling.
C6_EmptyDuration ==
    (Answered /\ IsAddSubtract /\ SchemaAccepts(args) /\ DurationKeys(args) = {})
    => /\ response[1].type = "error"
       /\ baseResults = <<>> /\ compareResults = <<>> /\ result = <<>>
       /\ response[1].error =
              IF ~PlanAccepted THEN planResult[1].error
              ELSE IF ~BaseResolved THEN ErrInvalidBase
              ELSE IF summedLength > MAX_OPERATIONS THEN ErrSumCount
              ELSE ErrNoDuration

C6_Witness ==
    /\ Answered /\ IsAddSubtract /\ DurationKeys(args) = {}
    /\ Len(givenBase) = MAX_OPERATIONS
    /\ response[1].type = "error"
    /\ response[1].error = ErrNoDuration

C9_PairwiseTruncation ==
    (/\ Answered /\ IsDiffOperation /\ PlanAccepted
     /\ plan.interaction_mode = "pairwise"
     /\ Len(givenBase) >= 1 /\ Len(givenCompare) >= 1)
    => /\ response[1].type = "result"
       /\ Len(Slots(response[1].result)) = Min(Len(givenBase), Len(givenCompare))
       /\ \A i \in 1..Min(Len(givenBase), Len(givenCompare)) :
              (Parseable(givenBase[i], args.timezone)
                  /\ Parseable(givenCompare[i], compareZone))
              => Slots(response[1].result)[i].total_milliseconds =
                     Instant(givenCompare[i], compareZone)
                     - Instant(givenBase[i], args.timezone)

C9_Witness ==
    /\ Answered /\ IsDiffOperation /\ PlanAccepted
    /\ plan.interaction_mode = "pairwise"
    /\ Len(givenBase) = 5 /\ Len(givenCompare) = 3
    /\ ~Parseable(givenBase[5], args.timezone)
    /\ response[1].type = "result"
    /\ response[1].result.count = 3
    /\ \A i \in 1..3 : ~IsErrorItem(response[1].result.results[i])

\* C10: diff / duration_between in cross_product mode over b base and c
\* compare timestamps answers with exactly b * c results in base-major order:
\* position i * c + j holds the difference of base[i] and compare[j].
C10_CrossProductOrder ==
    (/\ Answered /\ IsDiffOperation /\ PlanAccepted
     /\ plan.interaction_mode = "cross_product"
     /\ ~AnyUnparseable(givenBase, args.timezone)
     /\ ~AnyUnparseable(givenCompare, compareZone))
    => LET b == Len(givenBase)
           c == Len(givenCompare)
       IN  /\ b >= 1 /\ c >= 1
           /\ response[1].type = "result"
           /\ Len(Slots(response[1].result)) = b * c
           /\ \A i \in 0..(b - 1) : \A j \in 0..(c - 1) :
                  /\ ~IsErrorItem(Slots(response[1].result)[i * c + j + 1])
                  /\ Slots(response[1].result)[i * c + j + 1].total_milliseconds =
                         Instant(givenCompare[j + 1], compareZone)
                         - Instant(givenBase[i + 1], args.timezone)

C10_Witness ==
    /\ Answered /\ IsDiffOperation
    /\ PlanAccepted
    /\ plan.interaction_mode = "cross_product"
    /\ Len(givenBase) = 3 /\ Len(givenCompare) = 4
    /\ response[1].type = "result"
    /\ response[1].result.count = 12
    /\ response[1].result.results[2].total_milliseconds = 2 * Hour
    /\ response[1].result.results[5].total_milliseconds = -2 * Hour

-----------------------------------------------------------------------------
(* Properties of the result shape, of add / subtract batches and of the    *)
(* responses                                                               *)

DiffResultReturned ==
    Answered /\ IsDiffOperation /\ response[1].type = "result"

\* C11 (as stated): for diff and duration_between the result field is the
\* bare payload exactly when exactly one unit of work was produced; in every
\* other case it is an envelope whose count is the length of results and is
\* at least 2.
C11_BareIffOneUnit ==
    DiffResultReturned =>
        /\ (response[1].result.shape = "bare") <=> (Len(diffResults) = 1)
        /\ (response[1].result.shape # "bare") =>
              /\ response[1].result.shape = "batch"
              /\ response[1].result.count = Len(response[1].result.results)
              /\ response[1].result.count >= 2

\* The timestamps a returned add / subtract result lists for the base times.
BaseItems(r) ==
    CASE r.shape = "iso" -> <<r.value>>
      [] r.shape = "list" -> r.results
      [] OTHER -> r.base_results.results

\* C12 (as stated): for add and subtract over a batch, an invalid input
\* timestamp or an invalid arithmetic result at an index fails that index
\* only: the request still returns a result, in which every other index holds
\* its computed timestamp.
C12_PartialSuccess ==
    (Answered /\ IsAddSubtract /\ baseResults # <<>> /\ Len(baseTimes) >= 2) =>
        /\ response[1].type = "result"
        /\ \A i \in 1..Len(baseTimes) :
              baseTimes[i].isValid =>
                  BaseItems(response[1].result)[i] =
                      toISO(plusMinus(baseTimes[i], BuildDuration(args), args.operation))

\* A request of valid arguments that names no compare_time and is a diff or
\* duration_between, or asks for pairwise or cross_product, has been answered.
AnsweredWithoutCompare ==
    /\ Answered
    /\ SchemaAccepts(args)
    /\ ~Truthy(args.compare_time)
    /\ IsDiffOperation \/ requestedMode(args) \in {"pairwise", "cross_product"}

CardinalityErrors == {ErrSingleToMany, ErrManyToSingle, ErrPairwise, ErrCrossProduct}

\* C13 (as stated): a diff or duration_between request without compare_time,
\* and a pairwise or cross_product request without compare_time, returns an
\* error response that is the missing-compare_time error or the cardinality
\* error of the mode.
C13_MissingCompareOrCardinality ==
    AnsweredWithoutCompare =>
        /\ response[1].type = "error"
        /\ response[1].error \in {ErrCompareRequired} \cup CardinalityErrors

\* C13 (amended): such a request never produces a result: it returns an error
\* response, which is the missing-compare_time error, the cardinality error
\* of the mode, or the error of a check the handler makes before it looks at
\* compare_time (operation count over the ceiling, unparseable base_time).
C13_NoCompareNoResult ==
    AnsweredWithoutCompare =>
        /\ response[1].type = "error"
        /\ response[1].error \in
              {ErrCompareRequired} \cup CardinalityErrors
              \cup {ErrPlanCount, ErrInvalidBase}

\* A diff without compare_time whose base_time is unparseable is answered
\* with the error of the base_time.
C13_Witness ==
    /\ AnsweredWithoutCompare
    /\ args.operation = "diff"
    /\ response[1].type = "error"
    /\ response[1].error = ErrInvalidBase

\* C14: the step of handleTimeCalculator that returns a response, success or
\* structured error, attaches the metadata block (calculation_time,
\* calculation_timezone) exactly when the debug flag is enabled while the
\* request is handled, and no step of the handler changes the debug flag.
C14_MetadataIffDebug ==
    [][/\ (pc # "done" /\ pc' = "done" /\ response'[1].type # "thrown") =>
              /\ (response'[1].metadata # <<>>) <=> debugMode
              /\ response'[1].metadata \in {<<>>, <<metadataBlock>>}
       /\ (pc' # pc) => (debugMode' = debugMode)]_vars

\* A result returned with the metadata block while the debug flag is enabled.
C14_Witness ==
    /\ Answered
    /\ debugMode
    /\ response[1].type = "result"
    /\ response[1].metadata = <<metadataBlock>>

-----------------------------------------------------------------------------
(* Properties of the differences, the statistics and the sort              *)

DiffAnswered == Answered /\ response[1].type = "result" /\ IsDiffOperation

\* The units of one difference of operation "diff" add up to its total, each
\* below one of the next larger unit.
UnitsAddUp(slot) ==
    /\ slot.days * Day + slot.hours * Hour + slot.minutes * Minute
          + slot.seconds * Second + slot.milliseconds = slot.total_milliseconds
    /\ slot.hours \in (-23)..23
    /\ slot.minutes \in (-59)..59
    /\ slot.seconds \in (-59)..59

\* C15: for every valid pair (base, compare) the units of the diff result add
\* up to its total: days, hours, minutes, seconds and milliseconds, each a
\* cascading remainder of the larger ones, for spans of any length, spans of
\* one month or more included.
C15_UnitsAddUp ==
    (DiffAnswered /\ args.operation = "diff") =>
        \A i \in 1..Len(Slots(response[1].result)) :
            ~IsErrorItem(Slots(response[1].result)[i]) =>
                UnitsAddUp(Slots(response[1].result)[i])

\* The result has one slot per index of base and compare (one pair, or pairs
\* taken index by index).
SlotPerIndex ==
    /\ DiffAnswered
    /\ Len(givenBase) = Len(givenCompare)
    /\ Len(Slots(response[1].result)) = Len(givenBase)

\* Pair j is pair i with base and compare exchanged, read in the same zone.
Exchanged(i, j) ==
    /\ givenBase[i] = givenCompare[j]
    /\ givenCompare[i] = givenBase[j]
    /\ compareZone = args.timezone

ValidPair(i) ==
    Parseable(givenBase[i], args.timezone) /\ Parseable(givenCompare[i], compareZone)

ComparePrecedesBase(i) ==
    Instant(givenCompare[i], compareZone) < Instant(givenBase[i], args.timezone)

TotalOf(i) == Slots(response[1].result)[i].total_milliseconds

\* C16: for valid timestamps a and b the total_milliseconds of the difference
\* with base a and compare b is the negation of the one with base b and
\* compare a, and it is negative exactly when compare precedes base.
C16_SignAntisymmetry ==
    SlotPerIndex =>
        \A i \in 1..Len(givenBase) : ValidPair(i) =>
            /\ (TotalOf(i) < 0) <=> ComparePrecedesBase(i)
            /\ \A j \in 1..Len(givenBase) : Exchanged(i, j) => TotalOf(i) = - TotalOf(j)

\* Two different instants differenced in both orders by one request: the
\* first total is negative, the second its negation.
C16_Witness ==
    /\ SlotPerIndex
    /\ Len(givenBase) = 2
    /\ ValidPair(1)
    /\ Exchanged(1, 2)
    /\ ComparePrecedesBase(1)
    /\ TotalOf(1) < 0
    /\ TotalOf(2) = - TotalOf(1)

\* stats answered with the analysis of duration pairs.
DurationsAnswered ==
    /\ Answered
    /\ args.operation = "stats"
    /\ response[1].type = "result"
    /\ "duration_analysis" \in DOMAIN response[1].result

StatsPairs == Min(Len(givenBase), Len(givenCompare))

\* The indices of the pair loop that pushed a duration (lines 2220-2226).
Contributing ==
    {i \in 1..StatsPairs : givenBase[i] # EmptyStr /\ givenCompare[i] # EmptyStr}

\* d[i] = compare[i] - base[i]
PairDuration(i) ==
    Instant(givenCompare[i], compareZone) - Instant(givenBase[i], args.timezone)

\* The sum of the durations of the contributing pairs among the first n.
RECURSIVE DurationSum(_)
DurationSum(n) ==
    IF n = 0 THEN 0
    ELSE (IF n \in Contributing THEN PairDuration(n) ELSE 0) + DurationSum(n - 1)

\* x is the k-th smallest of the durations.
IsKthSmallest(x, k) ==
    /\ \E i \in Contributing : PairDuration(i) = x
    /\ Cardinality({i \in Contributing : PairDuration(i) < x}) < k
    /\ k <= Cardinality({i \in Contributing : PairDuration(i) <= x})

\* ms (thousands and units) is round(1000 * num / den): the whole number v
\* with v <= 1000 * num / den + 1/2 < v + 1.
IsRounded(ms, num, den) ==
    /\ ms.units \in 0..999
    /\ 2 * den * ms.units <= 2000 * (num - den * ms.thousands) + den
    /\ 2000 * (num - den * ms.thousands) + den < 2 * den * (ms.units + 1)

\* lo <= ms <= hi for whole thousands lo and hi.
Between(lo, ms, hi) ==
    /\ lo <= ms.thousands
    /\ ms.thousands < hi \/ (ms.thousands = hi /\ ms.units = 0)

DurationReportOf(r, n) ==
    /\ IsKthSmallest(r.min_duration_ms, 1)
    /\ IsKthSmallest(r.max_duration_ms, n)
    /\ r.total_duration_ms = DurationSum(StatsPairs)
    /\ IsRounded(r.mean_duration_ms, DurationSum(StatsPairs), n)
    /\ \E i, j \in Contributing :
          /\ IsKthSmallest(PairDuration(i), (n + 1) \div 2)
          /\ IsKthSmallest(PairDuration(j), (n \div 2) + 1)
          /\ IsRounded(r.median_duration_ms, PairDuration(i) + PairDuration(j), 2)
    /\ Between(r.min_duration_ms, r.median_duration_ms, r.max_duration_ms)
    /\ Between(r.min_duration_ms, r.mean_duration_ms, r.max_duration_ms)

\* The report is over the durations of the pairs that have both sides.
DurationReport(r) == DurationReportOf(r, Cardinality(Contributing))

StatsExample ==
    /\ args.base_time = Arr(<<T10, T10, T10>>)
    /\ args.compare_time = Arr(<<TJan08, TJan15, TJan22>>)

WeeksReport(r) ==
    /\ r.min_duration_ms = 604800
    /\ r.max_duration_ms = 1814400
    /\ r.mean_duration_ms = [thousands |-> 1209600, units |-> 0]
    /\ r.median_duration_ms = [thousands |-> 1209600, units |-> 0]

\* C17: stats over duration pairs, with d[i] = compare[i] - base[i] for i
\* below the shorter length, reports the minimum, the maximum, the sum, the
\* mean round(sum / n) and the median (the middle of the sorted durations,
\* the rounded average of the two middle ones when n is even), so that
\* min <= median <= max and min <= mean <= max; base [T, T, T] against
\* [T + 7d, T + 14d, T + 21d] gives 604800000 / 1814400000 / 1209600000 /
\* 1209600000 (held in thousands).
C17_DurationStatistics ==
    DurationsAnswered =>
        /\ DurationReport(response[1].result.duration_analysis)
        /\ StatsExample => WeeksReport(response[1].result.duration_analysis)

\* The documented example answered.
C17_Witness ==
    /\ DurationsAnswered
    /\ StatsExample
    /\ WeeksReport(response[1].result.duration_analysis)

SortAnswered ==
    /\ Answered
    /\ args.operation = "sort"
    /\ response[1].type = "result"

Orderings(n) ==
    {f \in [1..n -> 1..n] : \A k, l \in 1..n : f[k] = f[l] => k = l}

\* The three views of r are the input taken in the order f, non-decreasing,
\* with equal instants in input order.
SortedBy(r, f, n) ==
    /\ \A k \in 1..n :
          /\ r.sorted_original_format[k] = givenBase[f[k]]
          /\ r.sorted_iso_format[k] = toISO(parseOne(givenBase[f[k]], args.timezone))
          /\ r.sorted_timestamps[k] = Instant(givenBase[f[k]], args.timezone)
    /\ \A k, l \in 1..n : k < l =>
          /\ r.sorted_timestamps[k] <= r.sorted_timestamps[l]
          /\ r.sorted_timestamps[k] = r.sorted_timestamps[l] => f[k] < f[l]

SortReport(r, n) ==
    /\ n >= 2
    /\ r.input_count = n
    /\ Len(r.sorted_original_format) = n
    /\ Len(r.sorted_iso_format) = n
    /\ Len(r.sorted_timestamps) = n
    /\ \E f \in Orderings(n) : SortedBy(r, f, n)
    /\ r.sort_metadata.earliest_time = r.sorted_iso_format[1]
    /\ r.sort_metadata.latest_time = r.sorted_iso_format[n]
    /\ r.sort_metadata.total_span_ms = r.sorted_timestamps[n] - r.sorted_timestamps[1]
    /\ r.sort_metadata.total_span_ms >= 0

\* C18: sort over a base sequence of at least 2 valid timestamps returns
\* sorted_timestamps non-decreasing and a permutation of the input instants;
\* sorted_original_format, sorted_iso_format and sorted_timestamps are the
\* same permutation of the input; equal instants keep their input order;
\* earliest_time is the first element, latest_time the last, total_span_ms is
\* last - first >= 0, and input_count is the input length.
C18_StableSort ==
    SortAnswered => SortReport(response[1].result, Len(givenBase))

\* Three timestamps out of order, two of them the same instant written with
\* different offsets: the two keep their input order in front of the third.
C18_Witness ==
    /\ SortAnswered
    /\ args.base_time = Arr(<<T12, T10NY, T10>>)
    /\ response[1].result.sorted_original_format = <<T10NY, T10, T12>>

-----------------------------------------------------------------------------
(* Properties of the input normalizer and of the current instant           *)

\* A request the schema accepts is being handled or has been answered.
Called == pc # "idle" /\ SchemaAccepts(args)

\* C19: safelyParseTimeArray returns a non-empty sequence of strings for a
\* field that is absent, a single string (a string that is itself an array
\* literal included, such as the literal of an empty array) or an array of
\* strings.
C19_NormalizerNonEmpty ==
    Called =>
        /\ Len(givenBase) >= 1
        /\ Len(givenCompare) >= 1

\* C20: DateTime.now is called exactly once per request, whatever the
\* operation, whether or not base_time is supplied and whether or not debug
\* mode is enabled.
C20_NowCalledOnce ==
    (Called /\ Answered /\ response[1].type = "result") => nowCalls = 1

-----------------------------------------------------------------------------
(* Properties of the sample sizes, the modes and the phases                *)

\* The sequence the statistics or the sort are computed over has fewer than
\* 2 elements: the base timestamps, or the pairs when compare timestamps are
\* given.
TooFewSamples ==
    \/ /\ args.operation = "sort"
       /\ Len(givenBase) < 2
    \/ /\ args.operation = "stats"
       /\ ~Truthy(args.compare_time)
       /\ Len(givenBase) < 2
    \/ /\ args.operation = "stats"
       /\ Truthy(args.compare_time)
       /\ Len(givenCompare) >= 1
       /\ Min(Len(givenBase), Len(givenCompare)) < 2

\* C21: stats fails whenever the sequence its statistics are computed over
\* has fewer than 2 elements (base timestamps without compare_time, pairs
\* with it), sort fails whenever base_time has fewer than 2 elements, and in
\* none of these cases is a result returned.
C21_TooFewSamplesFail ==
    (Called /\ Answered /\ TooFewSamples) => response[1].type # "result"

\* A diff / duration_between request answered under the requested mode.
DiffAnsweredUnder(mode) ==
    /\ Called
    /\ Answered
    /\ IsDiffOperation
    /\ requestedMode(args) = mode

BothGiven ==
    /\ Truthy(args.base_time) /\ Len(givenBase) >= 1
    /\ Truthy(args.compare_time) /\ Len(givenCompare) >= 1

\* What pairwise mode answers: an error response when a sequence is absent,
\* else min(lengths) slots, slot i the difference or the failure of pair i.
AnsweredAsPairwise ==
    IF BothGiven
    THEN /\ response[1].type = "result"
         /\ Len(Slots(response[1].result)) = Min(Len(givenBase), Len(givenCompare))
         /\ \A i \in 1..Len(Slots(response[1].result)) :
               SlotIsPair(Slots(response[1].result)[i], i)
    ELSE response[1].type = "error"

\* C22: for diff and duration_between a request with interaction_mode
\* aggregate is answered as the same request with interaction_mode pairwise:
\* for all base and compare sequences, with an unparseable timestamp or one
\* sequence absent included, the same number of slots (min of the lengths)
\* with the same success or per-index failure in each slot.
C22_AggregateAsPairwise ==
    (DiffAnsweredUnder("aggregate") /\ Len(givenBase) >= 1 /\ Len(givenCompare) >= 1) =>
        AnsweredAsPairwise

\* base.plus({years, months, days, hours, minutes, seconds, milliseconds})
\* with the units of a duration_between result, as an instant.
Reconstructed(base, slot) ==
    plus(base, [u \in Units |-> slot[u]]).ts + slot.milliseconds

\* C23: for every duration_between result over valid (base, compare), adding
\* the reported years, months, days, hours, minutes, seconds and milliseconds
\* to base with calendar-aware addition yields exactly compare, for positive
\* and for negative spans.
C23_RoundTrip ==
    (SlotPerIndex /\ args.operation = "duration_between") =>
        \A i \in 1..Len(givenBase) : ValidPair(i) =>
            Reconstructed(parseOne(givenBase[i], args.timezone),
                          Slots(response[1].result)[i])
                = Instant(givenCompare[i], compareZone)

\* operationCount of planOperations for the request.
plannedOperationCount ==
    planLocals(args.base_time, args.compare_time, requestedMode(args)).operationCount

\* The batch runner of diff / duration_between has run and the result is
\* about to be formatted; no sequence was normalized to an empty one.
Assembling ==
    /\ Called
    /\ IsDiffOperation
    /\ pc = "return"
    /\ Len(givenBase) >= 1
    /\ Len(givenCompare) >= 1

\* C24: for diff and duration_between the number of result items the batch
\* runner produced equals the operation count the planner computed for the
\* resolved mode, for absent, single-string, array-literal and array inputs:
\* assembly starts with one result per planned unit and no other.
C24_ResultsMatchPlan ==
    Assembling => Len(diffResults) = plannedOperationCount

\* applyDuration has been applied to at least one base timestamp.
BaseExecuted == baseResults # <<>> /\ Len(givenBase) >= 1

\* Every sequence of the request has been resolved.
ResolutionComplete ==
    /\ baseTimesResult # <<>>
    /\ Truthy(args.compare_time) => compareTimesResult # <<>>

\* C25: the phases run in the order Planning, Resolving, Executing,
\* Assembling: the base and the compare sequence are both resolved before an
\* executor is applied to any element, and the request is aborted as a whole
\* only while planning or resolving, never after an executor has run (add /
\* subtract with a compare_time in particular).
C25_ResolveBeforeExecute ==
    (Called /\ IsAddSubtract /\ BaseExecuted) =>
        /\ ResolutionComplete
        /\ (Answered /\ baseResults[1].success) => response[1].type = "result"

-----------------------------------------------------------------------------
(* Properties of the failure records, the renderings and the resolver      *)

PairwiseAnswered == DiffAnswered /\ Called /\ PlanAccepted /\ isPairwise

\* C26: every per-item failure recorded by the pairwise executor carries,
\* besides error and index, the base and compare inputs of that pair as
\* received: base_time and compare_time of the error object are the input
\* strings at that index, the unparseable one included.
C26_FailureEchoesInputs ==
    PairwiseAnswered =>
        \A i \in 1..Len(Slots(response[1].result)) :
            IsErrorItem(Slots(response[1].result)[i]) =>
                /\ Slots(response[1].result)[i].index = i - 1
                /\ Slots(response[1].result)[i].base_time = givenBase[i]
                /\ Slots(response[1].result)[i].compare_time = givenCompare[i]

-----------------------------------------------------------------------------
(* Calls of formatDuration                                                 *)

\* Largest count of each unit enumerated for formatDuration.
MaxUnit == 2

\* Milliseconds below one second that are left over.
SubSecond == {0, 1, 500, 999}

Composed(d, h, m, s, r) ==
    d * MsPerDay + h * MsPerHour + m * MsPerMinute + s * MsPerSecond + r

FormatMagnitudes ==
    {Composed(d, h, m, s, r) : d \in 0..MaxUnit, h \in 0..MaxUnit,
                               m \in 0..MaxUnit, s \in 0..MaxUnit, r \in SubSecond}

FormatInputs == FormatMagnitudes \cup {-x : x \in FormatMagnitudes}

InitFormat ==
    /\ InitCall
    /\ debugMode = FALSE
    /\ durationMs \in FormatInputs
    /\ rendered = <<>>

\* formatDuration called on the number and on its negation.
Render ==
    /\ rendered = <<>>
    /\ rendered' = <<formatDuration(durationMs), formatDuration(-durationMs)>>
    /\ UNCHANGED <<pc, args, planResult, baseTimesResult, compareTimesResult,
                   baseResults, compareResults, diffResults, result, response,
                   nowCalls, debugMode, durationMs>>

NextFormat == Render

SpecFormat == InitFormat /\ [][NextFormat]_vars

\* Two listings joined by ", " unless one is empty.
Sep(a, b) == IF a = "" THEN b ELSE IF b = "" THEN a ELSE a \o ", " \o b

Counted(n, unit) ==
    IF n = 0 THEN ""
    ELSE IF n = 1 THEN "1 " \o unit
    ELSE ToString(n) \o " " \o unit \o "s"

\* The non-zero units in descending order.
Listing(d, h, m, s) ==
    Sep(Sep(Sep(Counted(d, "day"), Counted(h, "hour")), Counted(m, "minute")),
        Counted(s, "second"))

Magnitude(d, h, m, s) ==
    IF Listing(d, h, m, s) = "" THEN "0 seconds" ELSE Listing(d, h, m, s)

\* rendered[1] is the magnitude of durationMs, after a minus sign when
\* `negative` holds.
RendersMagnitude(negative) ==
    \A d, h, m, s \in 0..MaxUnit, r \in SubSecond :
        Abs(durationMs) = Composed(d, h, m, s, r) =>
            rendered[1] = (IF negative THEN "-" ELSE "") \o Magnitude(d, h, m, s)

BaseTimesResolved == Called /\ baseTimesResult # <<>> /\ baseTimesResult[1].success

\* The instant a string denotes: its wall-clock time at its own offset when
\* it carries one; else at the offset of the explicit zone, or of the system
\* zone when no zone was given.
DenotedInstant(info, zone) ==
    objToLocalTS(info.c)
    - (IF info.hasOffset THEN info.offset
       ELSE IF TruthyStr(zone) THEN ZoneOffset(zone[1])
       ELSE ZoneOffset(SystemZone))

ResolvedAs(dt, info, zone) ==
    IF ~info.ok THEN ~dt.isValid
    ELSE /\ dt.isValid
         /\ dt.ts = DenotedInstant(info, zone)
         /\ dt.zoneName = (IF TruthyStr(zone) THEN zone[1] ELSE SystemZone)

\* C28: a timestamp string that carries zone information (trailing Z or
\* numeric offset) resolves to the same instant with and without an explicit
\* zone (only the display zone differs); a string without zone information
\* resolves, with an explicit zone, as local wall-clock time in that zone;
\* an unparseable string resolves to an invalid TimePoint.
C28_ResolverZone ==
    BaseTimesResolved =>
        \A i \in 1..Len(baseTimes) :
            ResolvedAs(baseTimes[i], IsoInfo(givenBase[i]), args.timezone)

(***************************************************************************)
(* Properties of the timestamp analysis and of the pair count              *)
(***************************************************************************)

\* stats answered from base_time alone
TimestampsAnswered ==
    /\ Answered
    /\ args.operation = "stats"
    /\ response[1].type = "result"
    /\ "timestamp_analysis" \in DOMAIN response[1].result

BaseInstant(i) == Instant(givenBase[i], args.timezone)

\* x is the k-th smallest of the instants of base_time.
IsKthInstant(x, k) ==
    /\ \E i \in 1..Len(givenBase) : BaseInstant(i) = x
    /\ Cardinality({i \in 1..Len(givenBase) : BaseInstant(i) < x}) < k
    /\ k <= Cardinality({i \in 1..Len(givenBase) : BaseInstant(i) <= x})

TimestampReport(t, v, n) ==
    \E lo, hi, a, b \in {BaseInstant(i) : i \in 1..n} :
        /\ IsKthInstant(lo, 1)
        /\ IsKthInstant(hi, n)
        /\ IsKthInstant(a, (n + 1) \div 2)
        /\ IsKthInstant(b, (n \div 2) + 1)
        /\ t.earliest = isoOfHalves(2 * lo)
        /\ t.latest = isoOfHalves(2 * hi)
        /\ t.median_timestamp = isoOfHalves(a + b)
        /\ 2 * lo <= a + b
        /\ a + b <= 2 * hi
        /\ t.total_span_ms = hi - lo
        /\ Len(v) = 1
        /\ v[1].interval_count = n - 1
        /\ v[1].min_interval_ms >= 0
        /\ Between(v[1].min_interval_ms, v[1].mean_interval_ms, v[1].max_interval_ms)
        /\ v[1].total_intervals_span_ms = t.total_span_ms

\* C29: stats over n >= 2 valid timestamps and no compare_time reports
\* interval_count = n - 1, no negative interval, min_interval <= mean_interval
\* <= max_interval, total_intervals_span_ms = total_span_ms = latest -
\* earliest, and as median the middle instant in sorted order (the average of
\* the two middle ones for even n), which lies between earliest and latest.
C29_TimestampAnalysis ==
    TimestampsAnswered =>
        TimestampReport(response[1].result.timestamp_analysis,
                        response[1].result.interval_analysis, Len(givenBase))

\* Three instants given out of order, and two a second apart.
C29_Witness ==
    /\ TimestampsAnswered
    /\ \/ /\ givenBase = <<T12, T10, T10s1>>
          /\ response[1].result.timestamp_analysis.median_timestamp
                = "2024-01-01T10:00:01.000Z"
          /\ response[1].result.interval_analysis[1].max_interval_ms = 7199
       \/ /\ givenBase = <<T10s1, T10>>
          /\ response[1].result.timestamp_analysis.median_timestamp
                = "2024-01-01T10:00:00.500Z"

\* C30: in stats over pairs, pair_count is the number of pairs that
\* contributed a duration, also when indices are skipped because one side
\* is missing or empty.
C30_PairCountIsContributing ==
    DurationsAnswered =>
        response[1].result.duration_analysis.pair_count = Cardinality(Contributing)
====
